---- MODULE Spec2Model ----
(***************************************************************************)
(* A model of the deeplTranslator scripts.                                 *)
(*                                                                         *)
(*   SpecParse : translate_checklist_items.parse_values_tuples, the        *)
(*               character scanner over one VALUES span, run on spans      *)
(*               rendered from field lists and on every prefix of them.    *)
(*                                                                         *)
(* A string is a sequence of one-character strings.  A Field is a record   *)
(* [null |-> BOOLEAN, val |-> string]: Python's None is Null, and a str s  *)
(* is Str(s).                                                              *)
(***************************************************************************)
EXTENDS Integers, Sequences, FiniteSets, TLC

VARIABLES
    \* ---- parse_values_tuples (translate_checklist_items.py) ----
    src,            \* the field list the span was rendered from (input provenance)
    sql_fragment,   \* the span handed to parse_values_tuples
    i,              \* scan index, 0-based as in the code
    in_tuple,
    in_str,
    current,        \* fields of the tuple being read
    token,          \* token buffer
    tuples,         \* result list
    ppc,            \* "idle" | "scan" | "done"
    \* ---- translate_objects_file (activity_translator.py) ----
    objs,           \* the loaded list of objects (dicts)
    fields,         \* field names to translate
    target_langs,
    output_mode,    \* "1": new key per language, "2": overwrite
    positions,      \* [(obj_index, field_name)], 0-based index as in the code
    texts,
    lang_idx,       \* position of `lang` in target_langs (1-based)
    batch_i,        \* the batch loop's i
    translated_all,
    attempt,        \* with_retries' loop variable
    last_err,       \* with_retries' last_err ("none" when None)
    err,            \* the exception that left translate_objects_file
    calls,          \* provider requests made for the current batch
    outcome,        \* outcome of the latest provider request
    ret_attempt,    \* attempt on which the latest with_retries returned (0: none yet)
    last_sleep,     \* latest time.sleep, in tenths of a second (0: none yet)
    output,         \* the output file: [written, data]
    jpc,            \* "idle" | "start" | "lang" | "call" | "apply" | "done" | "failed"
    \* ---- main of translate_checklist_items.py and of generate_sql.py ----
    sql_text,       \* checklist: the text of the input file
    script,         \* "checklist" | "generate" ("none": not running)
    all_rows,       \* checklist: the parsed tuples; generate: the JSON rows
    blank_target,   \* the DeepL target whose translations come back blank ("none")
    rec_idx,        \* position of the row being processed (1-based)
    loc_idx,        \* position of the locale in TARGETS (1-based)
    values_sql,     \* the output rows so far
    call_log,       \* the provider requests made: <<row position, DeepL target, text>>
    sattempts,      \* times the failed provider request was tried (0: none failed)
    serr,           \* the exception that left main ("none")
    sql_out,        \* the output file: [written, rows]
    spc,            \* "idle" | "start" | "loop" | "done" | "failed"
    \* ---- deepl_translator.py (both modes) and translate_deepl.py ----
    m_script,       \* "multi" | "single" | "translate_deepl" ("none": not running)
    items,          \* list(data.items()): <<key, value>> pairs
    translated,     \* single language: the dict written at the end
    m_target_langs,
    m_lang_idx,     \* position of `lang` in target_langs (1-based)
    m_i,            \* the batch loop's i
    translated_for_lang,
    result,         \* lang -> dict
    m_last_sleep,   \* latest time.sleep, in tenths of a second (0: none yet)
    m_err,          \* the exception that left the function ("none")
    m_output,       \* the output file: [written, data]
    mpc             \* "idle" | "lang" | "call" | "scall" | "swrite" | "done" | "failed"

pvars == <<src, sql_fragment, i, in_tuple, in_str, current, token, tuples, ppc>>

jvars == <<objs, fields, target_langs, output_mode, positions, texts, lang_idx,
           batch_i, translated_all, attempt, last_err, err, calls, outcome,
           ret_attempt, last_sleep, output, jpc>>

svars == <<script, sql_text, all_rows, blank_target, rec_idx, loc_idx, values_sql, call_log,
           sattempts, serr, sql_out, spc>>

mvars == <<m_script, items, translated, m_target_langs, m_lang_idx, m_i, translated_for_lang, result,
           m_last_sleep, m_err, m_output, mpc>>

vars == <<pvars, jvars, svars, mvars>>

----------------------------------------------------------------------------
\* Bounds of the model.

\* longest unquoted token / quoted content drawn from the alphabets
MaxTokenLen == 2
\* most fields in one rendered tuple
MaxFields == 2
\* longest list of hand-made objects given to translate_objects_file
MaxObjs == 2
\* longest list of one-text objects (enough for three batches)
MaxBigObjs == 101
\* longest list of rows given to the SQL scripts' main
MaxRows == 2
MaxItems == 51

----------------------------------------------------------------------------
\* Strings.

Null == [null |-> TRUE, val |-> <<>>]
Str(s) == [null |-> FALSE, val |-> s]

\* A character is a one-character string.  The characters above U+00FF, and
\* the grave accent (U+0060), are named by their code point ("U+2003").

\* what str.strip() removes: the characters with c.isspace()
WhiteSpace ==
    {"\t", "\n", "", "\f", "\r", "", "", "", "", " ", "", " ",
     "U+1680", "U+2000", "U+2001", "U+2002", "U+2003", "U+2004", "U+2005",
     "U+2006", "U+2007", "U+2008", "U+2009", "U+200A", "U+2028", "U+2029",
     "U+202F", "U+205F", "U+3000"}

IsSpace(c) == c \in WhiteSpace

RECURSIVE LStrip(_)
LStrip(s) ==
    IF s # <<>> /\ IsSpace(Head(s)) THEN LStrip(Tail(s)) ELSE s

RECURSIVE RStrip(_)
RStrip(s) ==
    IF s # <<>> /\ IsSpace(s[Len(s)]) THEN RStrip(SubSeq(s, 1, Len(s) - 1)) ELSE s

\* str.strip()
Strip(s) == RStrip(LStrip(s))

\* the code point names: "U+" and at least four hexadecimal digits
HexChars ==
    <<"0", "1", "2", "3", "4", "5", "6", "7", "8", "9", "A", "B", "C", "D", "E",
      "F">>

RECURSIVE HexText(_, _)
HexText(k, w) ==
    IF k = 0 /\ w <= 0 THEN ""
    ELSE HexText(k \div 16, w - 1) \o HexChars[(k % 16) + 1]

CodePoint(k) == "U+" \o HexText(k, 4)

\* the characters of the code points of a set of ranges <<first, last>>
CharsOf(rs) == {CodePoint(k) : k \in UNION {r[1]..r[2] : r \in rs}}

\* str.upper() on one character, for every character it changes: a sequence,
\* "ß" gives two characters
UpperMap ==
    ((((((((((("a" :> <<"A">>) @@ ("b" :> <<"B">>)) @@ (("c" :> <<"C">>) @@
    (("d" :> <<"D">>) @@ ("e" :> <<"E">>)))) @@ ((("f" :> <<"F">>) @@ (("g"
    :> <<"G">>) @@ ("h" :> <<"H">>))) @@ (("i" :> <<"I">>) @@ (("j" :>
    <<"J">>) @@ ("k" :> <<"K">>))))) @@ (((("l" :> <<"L">>) @@ (("m" :>
    <<"M">>) @@ ("n" :> <<"N">>))) @@ (("o" :> <<"O">>) @@ (("p" :> <<"P">>)
    @@ ("q" :> <<"Q">>)))) @@ ((("r" :> <<"R">>) @@ (("s" :> <<"S">>) @@ ("t"
    :> <<"T">>))) @@ (("u" :> <<"U">>) @@ (("v" :> <<"V">>) @@ ("w" :>
    <<"W">>)))))) @@ ((((("x" :> <<"X">>) @@ (("y" :> <<"Y">>) @@ ("z" :>
    <<"Z">>))) @@ (("µ" :> <<"U+039C">>) @@ (("ß" :> <<"S", "S">>) @@ ("à" :>
    <<"À">>)))) @@ ((("á" :> <<"Á">>) @@ (("â" :> <<"Â">>) @@ ("ã" :>
    <<"Ã">>))) @@ (("ä" :> <<"Ä">>) @@ (("å" :> <<"Å">>) @@ ("æ" :>
    <<"Æ">>))))) @@ (((("ç" :> <<"Ç">>) @@ (("è" :> <<"È">>) @@ ("é" :>
    <<"É">>))) @@ (("ê" :> <<"Ê">>) @@ (("ë" :> <<"Ë">>) @@ ("ì" :>
    <<"Ì">>)))) @@ ((("í" :> <<"Í">>) @@ (("î" :> <<"Î">>) @@ ("ï" :>
    <<"Ï">>))) @@ (("ð" :> <<"Ð">>) @@ (("ñ" :> <<"Ñ">>) @@ ("ò" :>
    <<"Ò">>))))))) @@ (((((("ó" :> <<"Ó">>) @@ (("ô" :> <<"Ô">>) @@ ("õ" :>
    <<"Õ">>))) @@ (("ö" :> <<"Ö">>) @@ (("ø" :> <<"Ø">>) @@ ("ù" :>
    <<"Ù">>)))) @@ ((("ú" :> <<"Ú">>) @@ (("û" :> <<"Û">>) @@ ("ü" :>
    <<"Ü">>))) @@ (("ý" :> <<"Ý">>) @@ (("þ" :> <<"Þ">>) @@ ("ÿ" :>
    <<"U+0178">>))))) @@ (((("U+0101" :> <<"U+0100">>) @@ (("U+0103" :>
    <<"U+0102">>) @@ ("U+0105" :> <<"U+0104">>))) @@ (("U+0107" :>
    <<"U+0106">>) @@ (("U+0109" :> <<"U+0108">>) @@ ("U+010B" :>
    <<"U+010A">>)))) @@ ((("U+010D" :> <<"U+010C">>) @@ (("U+010F" :>
    <<"U+010E">>) @@ ("U+0111" :> <<"U+0110">>))) @@ (("U+0113" :>
    <<"U+0112">>) @@ (("U+0115" :> <<"U+0114">>) @@ ("U+0117" :>
    <<"U+0116">>)))))) @@ ((((("U+0119" :> <<"U+0118">>) @@ (("U+011B" :>
    <<"U+011A">>) @@ ("U+011D" :> <<"U+011C">>))) @@ (("U+011F" :>
    <<"U+011E">>) @@ (("U+0121" :> <<"U+0120">>) @@ ("U+0123" :>
    <<"U+0122">>)))) @@ ((("U+0125" :> <<"U+0124">>) @@ (("U+0127" :>
    <<"U+0126">>) @@ ("U+0129" :> <<"U+0128">>))) @@ (("U+012B" :>
    <<"U+012A">>) @@ (("U+012D" :> <<"U+012C">>) @@ ("U+012F" :>
    <<"U+012E">>))))) @@ (((("U+0131" :> <<"I">>) @@ (("U+0133" :>
    <<"U+0132">>) @@ ("U+0135" :> <<"U+0134">>))) @@ (("U+0137" :>
    <<"U+0136">>) @@ (("U+013A" :> <<"U+0139">>) @@ ("U+013C" :>
    <<"U+013B">>)))) @@ ((("U+013E" :> <<"U+013D">>) @@ (("U+0140" :>
    <<"U+013F">>) @@ ("U+0142" :> <<"U+0141">>))) @@ (("U+0144" :>
    <<"U+0143">>) @@ (("U+0146" :> <<"U+0145">>) @@ ("U+0148" :>
    <<"U+0147">>)))))))) @@ ((((((("U+0149" :> <<"U+02BC", "N">>) @@
    ("U+014B" :> <<"U+014A">>)) @@ (("U+014D" :> <<"U+014C">>) @@ (("U+014F"
    :> <<"U+014E">>) @@ ("U+0151" :> <<"U+0150">>)))) @@ ((("U+0153" :>
    <<"U+0152">>) @@ (("U+0155" :> <<"U+0154">>) @@ ("U+0157" :>
    <<"U+0156">>))) @@ (("U+0159" :> <<"U+0158">>) @@ (("U+015B" :>
    <<"U+015A">>) @@ ("U+015D" :> <<"U+015C">>))))) @@ (((("U+015F" :>
    <<"U+015E">>) @@ (("U+0161" :> <<"U+0160">>) @@ ("U+0163" :>
    <<"U+0162">>))) @@ (("U+0165" :> <<"U+0164">>) @@ (("U+0167" :>
    <<"U+0166">>) @@ ("U+0169" :> <<"U+0168">>)))) @@ ((("U+016B" :>
    <<"U+016A">>) @@ (("U+016D" :> <<"U+016C">>) @@ ("U+016F" :>
    <<"U+016E">>))) @@ (("U+0171" :> <<"U+0170">>) @@ (("U+0173" :>
    <<"U+0172">>) @@ ("U+0175" :> <<"U+0174">>)))))) @@ ((((("U+0177" :>
    <<"U+0176">>) @@ (("U+017A" :> <<"U+0179">>) @@ ("U+017C" :>
    <<"U+017B">>))) @@ (("U+017E" :> <<"U+017D">>) @@ (("U+017F" :> <<"S">>)
    @@ ("U+0180" :> <<"U+0243">>)))) @@ ((("U+0183" :> <<"U+0182">>) @@
    (("U+0185" :> <<"U+0184">>) @@ ("U+0188" :> <<"U+0187">>))) @@ (("U+018C"
    :> <<"U+018B">>) @@ (("U+0192" :> <<"U+0191">>) @@ ("U+0195" :>
    <<"U+01F6">>))))) @@ (((("U+0199" :> <<"U+0198">>) @@ (("U+019A" :>
    <<"U+023D">>) @@ ("U+019E" :> <<"U+0220">>))) @@ (("U+01A1" :>
    <<"U+01A0">>) @@ (("U+01A3" :> <<"U+01A2">>) @@ ("U+01A5" :>
    <<"U+01A4">>)))) @@ ((("U+01A8" :> <<"U+01A7">>) @@ (("U+01AD" :>
    <<"U+01AC">>) @@ ("U+01B0" :> <<"U+01AF">>))) @@ (("U+01B4" :>
    <<"U+01B3">>) @@ (("U+01B6" :> <<"U+01B5">>) @@ ("U+01B9" :>
    <<"U+01B8">>))))))) @@ (((((("U+01BD" :> <<"U+01BC">>) @@ (("U+01BF" :>
    <<"U+01F7">>) @@ ("U+01C5" :> <<"U+01C4">>))) @@ (("U+01C6" :>
    <<"U+01C4">>) @@ (("U+01C8" :> <<"U+01C7">>) @@ ("U+01C9" :>
    <<"U+01C7">>)))) @@ ((("U+01CB" :> <<"U+01CA">>) @@ (("U+01CC" :>
    <<"U+01CA">>) @@ ("U+01CE" :> <<"U+01CD">>))) @@ (("U+01D0" :>
    <<"U+01CF">>) @@ (("U+01D2" :> <<"U+01D1">>) @@ ("U+01D4" :>
    <<"U+01D3">>))))) @@ (((("U+01D6" :> <<"U+01D5">>) @@ (("U+01D8" :>
    <<"U+01D7">>) @@ ("U+01DA" :> <<"U+01D9">>))) @@ (("U+01DC" :>
    <<"U+01DB">>) @@ (("U+01DD" :> <<"U+018E">>) @@ ("U+01DF" :>
    <<"U+01DE">>)))) @@ ((("U+01E1" :> <<"U+01E0">>) @@ (("U+01E3" :>
    <<"U+01E2">>) @@ ("U+01E5" :> <<"U+01E4">>))) @@ (("U+01E7" :>
    <<"U+01E6">>) @@ (("U+01E9" :> <<"U+01E8">>) @@ ("U+01EB" :>
    <<"U+01EA">>)))))) @@ ((((("U+01ED" :> <<"U+01EC">>) @@ (("U+01EF" :>
    <<"U+01EE">>) @@ ("U+01F0" :> <<"J", "U+030C">>))) @@ (("U+01F2" :>
    <<"U+01F1">>) @@ (("U+01F3" :> <<"U+01F1">>) @@ ("U+01F5" :>
    <<"U+01F4">>)))) @@ ((("U+01F9" :> <<"U+01F8">>) @@ (("U+01FB" :>
    <<"U+01FA">>) @@ ("U+01FD" :> <<"U+01FC">>))) @@ (("U+01FF" :>
    <<"U+01FE">>) @@ (("U+0201" :> <<"U+0200">>) @@ ("U+0203" :>
    <<"U+0202">>))))) @@ (((("U+0205" :> <<"U+0204">>) @@ (("U+0207" :>
    <<"U+0206">>) @@ ("U+0209" :> <<"U+0208">>))) @@ (("U+020B" :>
    <<"U+020A">>) @@ (("U+020D" :> <<"U+020C">>) @@ ("U+020F" :>
    <<"U+020E">>)))) @@ ((("U+0211" :> <<"U+0210">>) @@ (("U+0213" :>
    <<"U+0212">>) @@ ("U+0215" :> <<"U+0214">>))) @@ (("U+0217" :>
    <<"U+0216">>) @@ (("U+0219" :> <<"U+0218">>) @@ ("U+021B" :>
    <<"U+021A">>))))))))) @@ (((((((("U+021D" :> <<"U+021C">>) @@ ("U+021F"
    :> <<"U+021E">>)) @@ (("U+0223" :> <<"U+0222">>) @@ (("U+0225" :>
    <<"U+0224">>) @@ ("U+0227" :> <<"U+0226">>)))) @@ ((("U+0229" :>
    <<"U+0228">>) @@ (("U+022B" :> <<"U+022A">>) @@ ("U+022D" :>
    <<"U+022C">>))) @@ (("U+022F" :> <<"U+022E">>) @@ (("U+0231" :>
    <<"U+0230">>) @@ ("U+0233" :> <<"U+0232">>))))) @@ (((("U+023C" :>
    <<"U+023B">>) @@ (("U+023F" :> <<"U+2C7E">>) @@ ("U+0240" :>
    <<"U+2C7F">>))) @@ (("U+0242" :> <<"U+0241">>) @@ (("U+0247" :>
    <<"U+0246">>) @@ ("U+0249" :> <<"U+0248">>)))) @@ ((("U+024B" :>
    <<"U+024A">>) @@ (("U+024D" :> <<"U+024C">>) @@ ("U+024F" :>
    <<"U+024E">>))) @@ (("U+0250" :> <<"U+2C6F">>) @@ (("U+0251" :>
    <<"U+2C6D">>) @@ ("U+0252" :> <<"U+2C70">>)))))) @@ ((((("U+0253" :>
    <<"U+0181">>) @@ (("U+0254" :> <<"U+0186">>) @@ ("U+0256" :>
    <<"U+0189">>))) @@ (("U+0257" :> <<"U+018A">>) @@ (("U+0259" :>
    <<"U+018F">>) @@ ("U+025B" :> <<"U+0190">>)))) @@ ((("U+025C" :>
    <<"U+A7AB">>) @@ (("U+0260" :> <<"U+0193">>) @@ ("U+0261" :>
    <<"U+A7AC">>))) @@ (("U+0263" :> <<"U+0194">>) @@ (("U+0265" :>
    <<"U+A78D">>) @@ ("U+0266" :> <<"U+A7AA">>))))) @@ (((("U+0268" :>
    <<"U+0197">>) @@ (("U+0269" :> <<"U+0196">>) @@ ("U+026A" :>
    <<"U+A7AE">>))) @@ (("U+026B" :> <<"U+2C62">>) @@ (("U+026C" :>
    <<"U+A7AD">>) @@ ("U+026F" :> <<"U+019C">>)))) @@ ((("U+0271" :>
    <<"U+2C6E">>) @@ (("U+0272" :> <<"U+019D">>) @@ ("U+0275" :>
    <<"U+019F">>))) @@ (("U+027D" :> <<"U+2C64">>) @@ (("U+0280" :>
    <<"U+01A6">>) @@ ("U+0282" :> <<"U+A7C5">>))))))) @@ (((((("U+0283" :>
    <<"U+01A9">>) @@ (("U+0287" :> <<"U+A7B1">>) @@ ("U+0288" :>
    <<"U+01AE">>))) @@ (("U+0289" :> <<"U+0244">>) @@ (("U+028A" :>
    <<"U+01B1">>) @@ ("U+028B" :> <<"U+01B2">>)))) @@ ((("U+028C" :>
    <<"U+0245">>) @@ (("U+0292" :> <<"U+01B7">>) @@ ("U+029D" :>
    <<"U+A7B2">>))) @@ (("U+029E" :> <<"U+A7B0">>) @@ (("U+0345" :>
    <<"U+0399">>) @@ ("U+0371" :> <<"U+0370">>))))) @@ (((("U+0373" :>
    <<"U+0372">>) @@ (("U+0377" :> <<"U+0376">>) @@ ("U+037B" :>
    <<"U+03FD">>))) @@ (("U+037C" :> <<"U+03FE">>) @@ (("U+037D" :>
    <<"U+03FF">>) @@ ("U+0390" :> <<"U+0399", "U+0308", "U+0301">>)))) @@
    ((("U+03AC" :> <<"U+0386">>) @@ (("U+03AD" :> <<"U+0388">>) @@ ("U+03AE"
    :> <<"U+0389">>))) @@ (("U+03AF" :> <<"U+038A">>) @@ (("U+03B0" :>
    <<"U+03A5", "U+0308", "U+0301">>) @@ ("U+03B1" :> <<"U+0391">>)))))) @@
    ((((("U+03B2" :> <<"U+0392">>) @@ (("U+03B3" :> <<"U+0393">>) @@
    ("U+03B4" :> <<"U+0394">>))) @@ (("U+03B5" :> <<"U+0395">>) @@ (("U+03B6"
    :> <<"U+0396">>) @@ ("U+03B7" :> <<"U+0397">>)))) @@ ((("U+03B8" :>
    <<"U+0398">>) @@ (("U+03B9" :> <<"U+0399">>) @@ ("U+03BA" :>
    <<"U+039A">>))) @@ (("U+03BB" :> <<"U+039B">>) @@ (("U+03BC" :>
    <<"U+039C">>) @@ ("U+03BD" :> <<"U+039D">>))))) @@ (((("U+03BE" :>
    <<"U+039E">>) @@ (("U+03BF" :> <<"U+039F">>) @@ ("U+03C0" :>
    <<"U+03A0">>))) @@ (("U+03C1" :> <<"U+03A1">>) @@ (("U+03C2" :>
    <<"U+03A3">>) @@ ("U+03C3" :> <<"U+03A3">>)))) @@ ((("U+03C4" :>
    <<"U+03A4">>) @@ (("U+03C5" :> <<"U+03A5">>) @@ ("U+03C6" :>
    <<"U+03A6">>))) @@ (("U+03C7" :> <<"U+03A7">>) @@ (("U+03C8" :>
    <<"U+03A8">>) @@ ("U+03C9" :> <<"U+03A9">>)))))))) @@ ((((((("U+03CA" :>
    <<"U+03AA">>) @@ (("U+03CB" :> <<"U+03AB">>) @@ ("U+03CC" :>
    <<"U+038C">>))) @@ (("U+03CD" :> <<"U+038E">>) @@ (("U+03CE" :>
    <<"U+038F">>) @@ ("U+03D0" :> <<"U+0392">>)))) @@ ((("U+03D1" :>
    <<"U+0398">>) @@ (("U+03D5" :> <<"U+03A6">>) @@ ("U+03D6" :>
    <<"U+03A0">>))) @@ (("U+03D7" :> <<"U+03CF">>) @@ (("U+03D9" :>
    <<"U+03D8">>) @@ ("U+03DB" :> <<"U+03DA">>))))) @@ (((("U+03DD" :>
    <<"U+03DC">>) @@ (("U+03DF" :> <<"U+03DE">>) @@ ("U+03E1" :>
    <<"U+03E0">>))) @@ (("U+03E3" :> <<"U+03E2">>) @@ (("U+03E5" :>
    <<"U+03E4">>) @@ ("U+03E7" :> <<"U+03E6">>)))) @@ ((("U+03E9" :>
    <<"U+03E8">>) @@ (("U+03EB" :> <<"U+03EA">>) @@ ("U+03ED" :>
    <<"U+03EC">>))) @@ (("U+03EF" :> <<"U+03EE">>) @@ (("U+03F0" :>
    <<"U+039A">>) @@ ("U+03F1" :> <<"U+03A1">>)))))) @@ ((((("U+03F2" :>
    <<"U+03F9">>) @@ (("U+03F3" :> <<"U+037F">>) @@ ("U+03F5" :>
    <<"U+0395">>))) @@ (("U+03F8" :> <<"U+03F7">>) @@ (("U+03FB" :>
    <<"U+03FA">>) @@ ("U+0430" :> <<"U+0410">>)))) @@ ((("U+0431" :>
    <<"U+0411">>) @@ (("U+0432" :> <<"U+0412">>) @@ ("U+0433" :>
    <<"U+0413">>))) @@ (("U+0434" :> <<"U+0414">>) @@ (("U+0435" :>
    <<"U+0415">>) @@ ("U+0436" :> <<"U+0416">>))))) @@ (((("U+0437" :>
    <<"U+0417">>) @@ (("U+0438" :> <<"U+0418">>) @@ ("U+0439" :>
    <<"U+0419">>))) @@ (("U+043A" :> <<"U+041A">>) @@ (("U+043B" :>
    <<"U+041B">>) @@ ("U+043C" :> <<"U+041C">>)))) @@ ((("U+043D" :>
    <<"U+041D">>) @@ (("U+043E" :> <<"U+041E">>) @@ ("U+043F" :>
    <<"U+041F">>))) @@ (("U+0440" :> <<"U+0420">>) @@ (("U+0441" :>
    <<"U+0421">>) @@ ("U+0442" :> <<"U+0422">>))))))) @@ (((((("U+0443" :>
    <<"U+0423">>) @@ (("U+0444" :> <<"U+0424">>) @@ ("U+0445" :>
    <<"U+0425">>))) @@ (("U+0446" :> <<"U+0426">>) @@ (("U+0447" :>
    <<"U+0427">>) @@ ("U+0448" :> <<"U+0428">>)))) @@ ((("U+0449" :>
    <<"U+0429">>) @@ (("U+044A" :> <<"U+042A">>) @@ ("U+044B" :>
    <<"U+042B">>))) @@ (("U+044C" :> <<"U+042C">>) @@ (("U+044D" :>
    <<"U+042D">>) @@ ("U+044E" :> <<"U+042E">>))))) @@ (((("U+044F" :>
    <<"U+042F">>) @@ (("U+0450" :> <<"U+0400">>) @@ ("U+0451" :>
    <<"U+0401">>))) @@ (("U+0452" :> <<"U+0402">>) @@ (("U+0453" :>
    <<"U+0403">>) @@ ("U+0454" :> <<"U+0404">>)))) @@ ((("U+0455" :>
    <<"U+0405">>) @@ (("U+0456" :> <<"U+0406">>) @@ ("U+0457" :>
    <<"U+0407">>))) @@ (("U+0458" :> <<"U+0408">>) @@ (("U+0459" :>
    <<"U+0409">>) @@ ("U+045A" :> <<"U+040A">>)))))) @@ ((((("U+045B" :>
    <<"U+040B">>) @@ (("U+045C" :> <<"U+040C">>) @@ ("U+045D" :>
    <<"U+040D">>))) @@ (("U+045E" :> <<"U+040E">>) @@ (("U+045F" :>
    <<"U+040F">>) @@ ("U+0461" :> <<"U+0460">>)))) @@ ((("U+0463" :>
    <<"U+0462">>) @@ (("U+0465" :> <<"U+0464">>) @@ ("U+0467" :>
    <<"U+0466">>))) @@ (("U+0469" :> <<"U+0468">>) @@ (("U+046B" :>
    <<"U+046A">>) @@ ("U+046D" :> <<"U+046C">>))))) @@ (((("U+046F" :>
    <<"U+046E">>) @@ (("U+0471" :> <<"U+0470">>) @@ ("U+0473" :>
    <<"U+0472">>))) @@ (("U+0475" :> <<"U+0474">>) @@ (("U+0477" :>
    <<"U+0476">>) @@ ("U+0479" :> <<"U+0478">>)))) @@ ((("U+047B" :>
    <<"U+047A">>) @@ (("U+047D" :> <<"U+047C">>) @@ ("U+047F" :>
    <<"U+047E">>))) @@ (("U+0481" :> <<"U+0480">>) @@ (("U+048B" :>
    <<"U+048A">>) @@ ("U+048D" :> <<"U+048C">>)))))))))) @@ ((((((((("U+048F"
    :> <<"U+048E">>) @@ ("U+0491" :> <<"U+0490">>)) @@ (("U+0493" :>
    <<"U+0492">>) @@ (("U+0495" :> <<"U+0494">>) @@ ("U+0497" :>
    <<"U+0496">>)))) @@ ((("U+0499" :> <<"U+0498">>) @@ (("U+049B" :>
    <<"U+049A">>) @@ ("U+049D" :> <<"U+049C">>))) @@ (("U+049F" :>
    <<"U+049E">>) @@ (("U+04A1" :> <<"U+04A0">>) @@ ("U+04A3" :>
    <<"U+04A2">>))))) @@ (((("U+04A5" :> <<"U+04A4">>) @@ (("U+04A7" :>
    <<"U+04A6">>) @@ ("U+04A9" :> <<"U+04A8">>))) @@ (("U+04AB" :>
    <<"U+04AA">>) @@ (("U+04AD" :> <<"U+04AC">>) @@ ("U+04AF" :>
    <<"U+04AE">>)))) @@ ((("U+04B1" :> <<"U+04B0">>) @@ (("U+04B3" :>
    <<"U+04B2">>) @@ ("U+04B5" :> <<"U+04B4">>))) @@ (("U+04B7" :>
    <<"U+04B6">>) @@ (("U+04B9" :> <<"U+04B8">>) @@ ("U+04BB" :>
    <<"U+04BA">>)))))) @@ ((((("U+04BD" :> <<"U+04BC">>) @@ (("U+04BF" :>
    <<"U+04BE">>) @@ ("U+04C2" :> <<"U+04C1">>))) @@ (("U+04C4" :>
    <<"U+04C3">>) @@ (("U+04C6" :> <<"U+04C5">>) @@ ("U+04C8" :>
    <<"U+04C7">>)))) @@ ((("U+04CA" :> <<"U+04C9">>) @@ (("U+04CC" :>
    <<"U+04CB">>) @@ ("U+04CE" :> <<"U+04CD">>))) @@ (("U+04CF" :>
    <<"U+04C0">>) @@ (("U+04D1" :> <<"U+04D0">>) @@ ("U+04D3" :>
    <<"U+04D2">>))))) @@ (((("U+04D5" :> <<"U+04D4">>) @@ (("U+04D7" :>
    <<"U+04D6">>) @@ ("U+04D9" :> <<"U+04D8">>))) @@ (("U+04DB" :>
    <<"U+04DA">>) @@ (("U+04DD" :> <<"U+04DC">>) @@ ("U+04DF" :>
    <<"U+04DE">>)))) @@ ((("U+04E1" :> <<"U+04E0">>) @@ (("U+04E3" :>
    <<"U+04E2">>) @@ ("U+04E5" :> <<"U+04E4">>))) @@ (("U+04E7" :>
    <<"U+04E6">>) @@ (("U+04E9" :> <<"U+04E8">>) @@ ("U+04EB" :>
    <<"U+04EA">>))))))) @@ (((((("U+04ED" :> <<"U+04EC">>) @@ (("U+04EF" :>
    <<"U+04EE">>) @@ ("U+04F1" :> <<"U+04F0">>))) @@ (("U+04F3" :>
    <<"U+04F2">>) @@ (("U+04F5" :> <<"U+04F4">>) @@ ("U+04F7" :>
    <<"U+04F6">>)))) @@ ((("U+04F9" :> <<"U+04F8">>) @@ (("U+04FB" :>
    <<"U+04FA">>) @@ ("U+04FD" :> <<"U+04FC">>))) @@ (("U+04FF" :>
    <<"U+04FE">>) @@ (("U+0501" :> <<"U+0500">>) @@ ("U+0503" :>
    <<"U+0502">>))))) @@ (((("U+0505" :> <<"U+0504">>) @@ (("U+0507" :>
    <<"U+0506">>) @@ ("U+0509" :> <<"U+0508">>))) @@ (("U+050B" :>
    <<"U+050A">>) @@ (("U+050D" :> <<"U+050C">>) @@ ("U+050F" :>
    <<"U+050E">>)))) @@ ((("U+0511" :> <<"U+0510">>) @@ (("U+0513" :>
    <<"U+0512">>) @@ ("U+0515" :> <<"U+0514">>))) @@ (("U+0517" :>
    <<"U+0516">>) @@ (("U+0519" :> <<"U+0518">>) @@ ("U+051B" :>
    <<"U+051A">>)))))) @@ ((((("U+051D" :> <<"U+051C">>) @@ (("U+051F" :>
    <<"U+051E">>) @@ ("U+0521" :> <<"U+0520">>))) @@ (("U+0523" :>
    <<"U+0522">>) @@ (("U+0525" :> <<"U+0524">>) @@ ("U+0527" :>
    <<"U+0526">>)))) @@ ((("U+0529" :> <<"U+0528">>) @@ (("U+052B" :>
    <<"U+052A">>) @@ ("U+052D" :> <<"U+052C">>))) @@ (("U+052F" :>
    <<"U+052E">>) @@ (("U+0561" :> <<"U+0531">>) @@ ("U+0562" :>
    <<"U+0532">>))))) @@ (((("U+0563" :> <<"U+0533">>) @@ (("U+0564" :>
    <<"U+0534">>) @@ ("U+0565" :> <<"U+0535">>))) @@ (("U+0566" :>
    <<"U+0536">>) @@ (("U+0567" :> <<"U+0537">>) @@ ("U+0568" :>
    <<"U+0538">>)))) @@ ((("U+0569" :> <<"U+0539">>) @@ (("U+056A" :>
    <<"U+053A">>) @@ ("U+056B" :> <<"U+053B">>))) @@ (("U+056C" :>
    <<"U+053C">>) @@ (("U+056D" :> <<"U+053D">>) @@ ("U+056E" :>
    <<"U+053E">>)))))))) @@ ((((((("U+056F" :> <<"U+053F">>) @@ ("U+0570" :>
    <<"U+0540">>)) @@ (("U+0571" :> <<"U+0541">>) @@ (("U+0572" :>
    <<"U+0542">>) @@ ("U+0573" :> <<"U+0543">>)))) @@ ((("U+0574" :>
    <<"U+0544">>) @@ (("U+0575" :> <<"U+0545">>) @@ ("U+0576" :>
    <<"U+0546">>))) @@ (("U+0577" :> <<"U+0547">>) @@ (("U+0578" :>
    <<"U+0548">>) @@ ("U+0579" :> <<"U+0549">>))))) @@ (((("U+057A" :>
    <<"U+054A">>) @@ (("U+057B" :> <<"U+054B">>) @@ ("U+057C" :>
    <<"U+054C">>))) @@ (("U+057D" :> <<"U+054D">>) @@ (("U+057E" :>
    <<"U+054E">>) @@ ("U+057F" :> <<"U+054F">>)))) @@ ((("U+0580" :>
    <<"U+0550">>) @@ (("U+0581" :> <<"U+0551">>) @@ ("U+0582" :>
    <<"U+0552">>))) @@ (("U+0583" :> <<"U+0553">>) @@ (("U+0584" :>
    <<"U+0554">>) @@ ("U+0585" :> <<"U+0555">>)))))) @@ ((((("U+0586" :>
    <<"U+0556">>) @@ (("U+0587" :> <<"U+0535", "U+0552">>) @@ ("U+10D0" :>
    <<"U+1C90">>))) @@ (("U+10D1" :> <<"U+1C91">>) @@ (("U+10D2" :>
    <<"U+1C92">>) @@ ("U+10D3" :> <<"U+1C93">>)))) @@ ((("U+10D4" :>
    <<"U+1C94">>) @@ (("U+10D5" :> <<"U+1C95">>) @@ ("U+10D6" :>
    <<"U+1C96">>))) @@ (("U+10D7" :> <<"U+1C97">>) @@ (("U+10D8" :>
    <<"U+1C98">>) @@ ("U+10D9" :> <<"U+1C99">>))))) @@ (((("U+10DA" :>
    <<"U+1C9A">>) @@ (("U+10DB" :> <<"U+1C9B">>) @@ ("U+10DC" :>
    <<"U+1C9C">>))) @@ (("U+10DD" :> <<"U+1C9D">>) @@ (("U+10DE" :>
    <<"U+1C9E">>) @@ ("U+10DF" :> <<"U+1C9F">>)))) @@ ((("U+10E0" :>
    <<"U+1CA0">>) @@ (("U+10E1" :> <<"U+1CA1">>) @@ ("U+10E2" :>
    <<"U+1CA2">>))) @@ (("U+10E3" :> <<"U+1CA3">>) @@ (("U+10E4" :>
    <<"U+1CA4">>) @@ ("U+10E5" :> <<"U+1CA5">>))))))) @@ (((((("U+10E6" :>
    <<"U+1CA6">>) @@ (("U+10E7" :> <<"U+1CA7">>) @@ ("U+10E8" :>
    <<"U+1CA8">>))) @@ (("U+10E9" :> <<"U+1CA9">>) @@ (("U+10EA" :>
    <<"U+1CAA">>) @@ ("U+10EB" :> <<"U+1CAB">>)))) @@ ((("U+10EC" :>
    <<"U+1CAC">>) @@ (("U+10ED" :> <<"U+1CAD">>) @@ ("U+10EE" :>
    <<"U+1CAE">>))) @@ (("U+10EF" :> <<"U+1CAF">>) @@ (("U+10F0" :>
    <<"U+1CB0">>) @@ ("U+10F1" :> <<"U+1CB1">>))))) @@ (((("U+10F2" :>
    <<"U+1CB2">>) @@ (("U+10F3" :> <<"U+1CB3">>) @@ ("U+10F4" :>
    <<"U+1CB4">>))) @@ (("U+10F5" :> <<"U+1CB5">>) @@ (("U+10F6" :>
    <<"U+1CB6">>) @@ ("U+10F7" :> <<"U+1CB7">>)))) @@ ((("U+10F8" :>
    <<"U+1CB8">>) @@ (("U+10F9" :> <<"U+1CB9">>) @@ ("U+10FA" :>
    <<"U+1CBA">>))) @@ (("U+10FD" :> <<"U+1CBD">>) @@ (("U+10FE" :>
    <<"U+1CBE">>) @@ ("U+10FF" :> <<"U+1CBF">>)))))) @@ ((((("U+13F8" :>
    <<"U+13F0">>) @@ (("U+13F9" :> <<"U+13F1">>) @@ ("U+13FA" :>
    <<"U+13F2">>))) @@ (("U+13FB" :> <<"U+13F3">>) @@ (("U+13FC" :>
    <<"U+13F4">>) @@ ("U+13FD" :> <<"U+13F5">>)))) @@ ((("U+1C80" :>
    <<"U+0412">>) @@ (("U+1C81" :> <<"U+0414">>) @@ ("U+1C82" :>
    <<"U+041E">>))) @@ (("U+1C83" :> <<"U+0421">>) @@ (("U+1C84" :>
    <<"U+0422">>) @@ ("U+1C85" :> <<"U+0422">>))))) @@ (((("U+1C86" :>
    <<"U+042A">>) @@ (("U+1C87" :> <<"U+0462">>) @@ ("U+1C88" :>
    <<"U+A64A">>))) @@ (("U+1D79" :> <<"U+A77D">>) @@ (("U+1D7D" :>
    <<"U+2C63">>) @@ ("U+1D8E" :> <<"U+A7C6">>)))) @@ ((("U+1E01" :>
    <<"U+1E00">>) @@ (("U+1E03" :> <<"U+1E02">>) @@ ("U+1E05" :>
    <<"U+1E04">>))) @@ (("U+1E07" :> <<"U+1E06">>) @@ (("U+1E09" :>
    <<"U+1E08">>) @@ ("U+1E0B" :> <<"U+1E0A">>))))))))) @@ (((((((("U+1E0D"
    :> <<"U+1E0C">>) @@ ("U+1E0F" :> <<"U+1E0E">>)) @@ (("U+1E11" :>
    <<"U+1E10">>) @@ (("U+1E13" :> <<"U+1E12">>) @@ ("U+1E15" :>
    <<"U+1E14">>)))) @@ ((("U+1E17" :> <<"U+1E16">>) @@ (("U+1E19" :>
    <<"U+1E18">>) @@ ("U+1E1B" :> <<"U+1E1A">>))) @@ (("U+1E1D" :>
    <<"U+1E1C">>) @@ (("U+1E1F" :> <<"U+1E1E">>) @@ ("U+1E21" :>
    <<"U+1E20">>))))) @@ (((("U+1E23" :> <<"U+1E22">>) @@ (("U+1E25" :>
    <<"U+1E24">>) @@ ("U+1E27" :> <<"U+1E26">>))) @@ (("U+1E29" :>
    <<"U+1E28">>) @@ (("U+1E2B" :> <<"U+1E2A">>) @@ ("U+1E2D" :>
    <<"U+1E2C">>)))) @@ ((("U+1E2F" :> <<"U+1E2E">>) @@ (("U+1E31" :>
    <<"U+1E30">>) @@ ("U+1E33" :> <<"U+1E32">>))) @@ (("U+1E35" :>
    <<"U+1E34">>) @@ (("U+1E37" :> <<"U+1E36">>) @@ ("U+1E39" :>
    <<"U+1E38">>)))))) @@ ((((("U+1E3B" :> <<"U+1E3A">>) @@ (("U+1E3D" :>
    <<"U+1E3C">>) @@ ("U+1E3F" :> <<"U+1E3E">>))) @@ (("U+1E41" :>
    <<"U+1E40">>) @@ (("U+1E43" :> <<"U+1E42">>) @@ ("U+1E45" :>
    <<"U+1E44">>)))) @@ ((("U+1E47" :> <<"U+1E46">>) @@ (("U+1E49" :>
    <<"U+1E48">>) @@ ("U+1E4B" :> <<"U+1E4A">>))) @@ (("U+1E4D" :>
    <<"U+1E4C">>) @@ (("U+1E4F" :> <<"U+1E4E">>) @@ ("U+1E51" :>
    <<"U+1E50">>))))) @@ (((("U+1E53" :> <<"U+1E52">>) @@ (("U+1E55" :>
    <<"U+1E54">>) @@ ("U+1E57" :> <<"U+1E56">>))) @@ (("U+1E59" :>
    <<"U+1E58">>) @@ (("U+1E5B" :> <<"U+1E5A">>) @@ ("U+1E5D" :>
    <<"U+1E5C">>)))) @@ ((("U+1E5F" :> <<"U+1E5E">>) @@ (("U+1E61" :>
    <<"U+1E60">>) @@ ("U+1E63" :> <<"U+1E62">>))) @@ (("U+1E65" :>
    <<"U+1E64">>) @@ (("U+1E67" :> <<"U+1E66">>) @@ ("U+1E69" :>
    <<"U+1E68">>))))))) @@ (((((("U+1E6B" :> <<"U+1E6A">>) @@ (("U+1E6D" :>
    <<"U+1E6C">>) @@ ("U+1E6F" :> <<"U+1E6E">>))) @@ (("U+1E71" :>
    <<"U+1E70">>) @@ (("U+1E73" :> <<"U+1E72">>) @@ ("U+1E75" :>
    <<"U+1E74">>)))) @@ ((("U+1E77" :> <<"U+1E76">>) @@ (("U+1E79" :>
    <<"U+1E78">>) @@ ("U+1E7B" :> <<"U+1E7A">>))) @@ (("U+1E7D" :>
    <<"U+1E7C">>) @@ (("U+1E7F" :> <<"U+1E7E">>) @@ ("U+1E81" :>
    <<"U+1E80">>))))) @@ (((("U+1E83" :> <<"U+1E82">>) @@ (("U+1E85" :>
    <<"U+1E84">>) @@ ("U+1E87" :> <<"U+1E86">>))) @@ (("U+1E89" :>
    <<"U+1E88">>) @@ (("U+1E8B" :> <<"U+1E8A">>) @@ ("U+1E8D" :>
    <<"U+1E8C">>)))) @@ ((("U+1E8F" :> <<"U+1E8E">>) @@ (("U+1E91" :>
    <<"U+1E90">>) @@ ("U+1E93" :> <<"U+1E92">>))) @@ (("U+1E95" :>
    <<"U+1E94">>) @@ (("U+1E96" :> <<"H", "U+0331">>) @@ ("U+1E97" :> <<"T",
    "U+0308">>)))))) @@ ((((("U+1E98" :> <<"W", "U+030A">>) @@ (("U+1E99" :>
    <<"Y", "U+030A">>) @@ ("U+1E9A" :> <<"A", "U+02BE">>))) @@ (("U+1E9B" :>
    <<"U+1E60">>) @@ (("U+1EA1" :> <<"U+1EA0">>) @@ ("U+1EA3" :>
    <<"U+1EA2">>)))) @@ ((("U+1EA5" :> <<"U+1EA4">>) @@ (("U+1EA7" :>
    <<"U+1EA6">>) @@ ("U+1EA9" :> <<"U+1EA8">>))) @@ (("U+1EAB" :>
    <<"U+1EAA">>) @@ (("U+1EAD" :> <<"U+1EAC">>) @@ ("U+1EAF" :>
    <<"U+1EAE">>))))) @@ (((("U+1EB1" :> <<"U+1EB0">>) @@ (("U+1EB3" :>
    <<"U+1EB2">>) @@ ("U+1EB5" :> <<"U+1EB4">>))) @@ (("U+1EB7" :>
    <<"U+1EB6">>) @@ (("U+1EB9" :> <<"U+1EB8">>) @@ ("U+1EBB" :>
    <<"U+1EBA">>)))) @@ ((("U+1EBD" :> <<"U+1EBC">>) @@ (("U+1EBF" :>
    <<"U+1EBE">>) @@ ("U+1EC1" :> <<"U+1EC0">>))) @@ (("U+1EC3" :>
    <<"U+1EC2">>) @@ (("U+1EC5" :> <<"U+1EC4">>) @@ ("U+1EC7" :>
    <<"U+1EC6">>)))))))) @@ ((((((("U+1EC9" :> <<"U+1EC8">>) @@ (("U+1ECB" :>
    <<"U+1ECA">>) @@ ("U+1ECD" :> <<"U+1ECC">>))) @@ (("U+1ECF" :>
    <<"U+1ECE">>) @@ (("U+1ED1" :> <<"U+1ED0">>) @@ ("U+1ED3" :>
    <<"U+1ED2">>)))) @@ ((("U+1ED5" :> <<"U+1ED4">>) @@ (("U+1ED7" :>
    <<"U+1ED6">>) @@ ("U+1ED9" :> <<"U+1ED8">>))) @@ (("U+1EDB" :>
    <<"U+1EDA">>) @@ (("U+1EDD" :> <<"U+1EDC">>) @@ ("U+1EDF" :>
    <<"U+1EDE">>))))) @@ (((("U+1EE1" :> <<"U+1EE0">>) @@ (("U+1EE3" :>
    <<"U+1EE2">>) @@ ("U+1EE5" :> <<"U+1EE4">>))) @@ (("U+1EE7" :>
    <<"U+1EE6">>) @@ (("U+1EE9" :> <<"U+1EE8">>) @@ ("U+1EEB" :>
    <<"U+1EEA">>)))) @@ ((("U+1EED" :> <<"U+1EEC">>) @@ (("U+1EEF" :>
    <<"U+1EEE">>) @@ ("U+1EF1" :> <<"U+1EF0">>))) @@ (("U+1EF3" :>
    <<"U+1EF2">>) @@ (("U+1EF5" :> <<"U+1EF4">>) @@ ("U+1EF7" :>
    <<"U+1EF6">>)))))) @@ ((((("U+1EF9" :> <<"U+1EF8">>) @@ (("U+1EFB" :>
    <<"U+1EFA">>) @@ ("U+1EFD" :> <<"U+1EFC">>))) @@ (("U+1EFF" :>
    <<"U+1EFE">>) @@ (("U+1F00" :> <<"U+1F08">>) @@ ("U+1F01" :>
    <<"U+1F09">>)))) @@ ((("U+1F02" :> <<"U+1F0A">>) @@ (("U+1F03" :>
    <<"U+1F0B">>) @@ ("U+1F04" :> <<"U+1F0C">>))) @@ (("U+1F05" :>
    <<"U+1F0D">>) @@ (("U+1F06" :> <<"U+1F0E">>) @@ ("U+1F07" :>
    <<"U+1F0F">>))))) @@ (((("U+1F10" :> <<"U+1F18">>) @@ (("U+1F11" :>
    <<"U+1F19">>) @@ ("U+1F12" :> <<"U+1F1A">>))) @@ (("U+1F13" :>
    <<"U+1F1B">>) @@ (("U+1F14" :> <<"U+1F1C">>) @@ ("U+1F15" :>
    <<"U+1F1D">>)))) @@ ((("U+1F20" :> <<"U+1F28">>) @@ (("U+1F21" :>
    <<"U+1F29">>) @@ ("U+1F22" :> <<"U+1F2A">>))) @@ (("U+1F23" :>
    <<"U+1F2B">>) @@ (("U+1F24" :> <<"U+1F2C">>) @@ ("U+1F25" :>
    <<"U+1F2D">>))))))) @@ (((((("U+1F26" :> <<"U+1F2E">>) @@ (("U+1F27" :>
    <<"U+1F2F">>) @@ ("U+1F30" :> <<"U+1F38">>))) @@ (("U+1F31" :>
    <<"U+1F39">>) @@ (("U+1F32" :> <<"U+1F3A">>) @@ ("U+1F33" :>
    <<"U+1F3B">>)))) @@ ((("U+1F34" :> <<"U+1F3C">>) @@ (("U+1F35" :>
    <<"U+1F3D">>) @@ ("U+1F36" :> <<"U+1F3E">>))) @@ (("U+1F37" :>
    <<"U+1F3F">>) @@ (("U+1F40" :> <<"U+1F48">>) @@ ("U+1F41" :>
    <<"U+1F49">>))))) @@ (((("U+1F42" :> <<"U+1F4A">>) @@ (("U+1F43" :>
    <<"U+1F4B">>) @@ ("U+1F44" :> <<"U+1F4C">>))) @@ (("U+1F45" :>
    <<"U+1F4D">>) @@ (("U+1F50" :> <<"U+03A5", "U+0313">>) @@ ("U+1F51" :>
    <<"U+1F59">>)))) @@ ((("U+1F52" :> <<"U+03A5", "U+0313", "U+0300">>) @@
    (("U+1F53" :> <<"U+1F5B">>) @@ ("U+1F54" :> <<"U+03A5", "U+0313",
    "U+0301">>))) @@ (("U+1F55" :> <<"U+1F5D">>) @@ (("U+1F56" :> <<"U+03A5",
    "U+0313", "U+0342">>) @@ ("U+1F57" :> <<"U+1F5F">>)))))) @@ ((((("U+1F60"
    :> <<"U+1F68">>) @@ (("U+1F61" :> <<"U+1F69">>) @@ ("U+1F62" :>
    <<"U+1F6A">>))) @@ (("U+1F63" :> <<"U+1F6B">>) @@ (("U+1F64" :>
    <<"U+1F6C">>) @@ ("U+1F65" :> <<"U+1F6D">>)))) @@ ((("U+1F66" :>
    <<"U+1F6E">>) @@ (("U+1F67" :> <<"U+1F6F">>) @@ ("U+1F70" :>
    <<"U+1FBA">>))) @@ (("U+1F71" :> <<"U+1FBB">>) @@ (("U+1F72" :>
    <<"U+1FC8">>) @@ ("U+1F73" :> <<"U+1FC9">>))))) @@ (((("U+1F74" :>
    <<"U+1FCA">>) @@ (("U+1F75" :> <<"U+1FCB">>) @@ ("U+1F76" :>
    <<"U+1FDA">>))) @@ (("U+1F77" :> <<"U+1FDB">>) @@ (("U+1F78" :>
    <<"U+1FF8">>) @@ ("U+1F79" :> <<"U+1FF9">>)))) @@ ((("U+1F7A" :>
    <<"U+1FEA">>) @@ (("U+1F7B" :> <<"U+1FEB">>) @@ ("U+1F7C" :>
    <<"U+1FFA">>))) @@ (("U+1F7D" :> <<"U+1FFB">>) @@ (("U+1F80" :>
    <<"U+1F08", "U+0399">>) @@ ("U+1F81" :> <<"U+1F09", "U+0399">>)))))))))))
    @@ (((((((((("U+1F82" :> <<"U+1F0A", "U+0399">>) @@ ("U+1F83" :>
    <<"U+1F0B", "U+0399">>)) @@ (("U+1F84" :> <<"U+1F0C", "U+0399">>) @@
    (("U+1F85" :> <<"U+1F0D", "U+0399">>) @@ ("U+1F86" :> <<"U+1F0E",
    "U+0399">>)))) @@ ((("U+1F87" :> <<"U+1F0F", "U+0399">>) @@ (("U+1F88" :>
    <<"U+1F08", "U+0399">>) @@ ("U+1F89" :> <<"U+1F09", "U+0399">>))) @@
    (("U+1F8A" :> <<"U+1F0A", "U+0399">>) @@ (("U+1F8B" :> <<"U+1F0B",
    "U+0399">>) @@ ("U+1F8C" :> <<"U+1F0C", "U+0399">>))))) @@ (((("U+1F8D"
    :> <<"U+1F0D", "U+0399">>) @@ (("U+1F8E" :> <<"U+1F0E", "U+0399">>) @@
    ("U+1F8F" :> <<"U+1F0F", "U+0399">>))) @@ (("U+1F90" :> <<"U+1F28",
    "U+0399">>) @@ (("U+1F91" :> <<"U+1F29", "U+0399">>) @@ ("U+1F92" :>
    <<"U+1F2A", "U+0399">>)))) @@ ((("U+1F93" :> <<"U+1F2B", "U+0399">>) @@
    (("U+1F94" :> <<"U+1F2C", "U+0399">>) @@ ("U+1F95" :> <<"U+1F2D",
    "U+0399">>))) @@ (("U+1F96" :> <<"U+1F2E", "U+0399">>) @@ (("U+1F97" :>
    <<"U+1F2F", "U+0399">>) @@ ("U+1F98" :> <<"U+1F28", "U+0399">>)))))) @@
    ((((("U+1F99" :> <<"U+1F29", "U+0399">>) @@ (("U+1F9A" :> <<"U+1F2A",
    "U+0399">>) @@ ("U+1F9B" :> <<"U+1F2B", "U+0399">>))) @@ (("U+1F9C" :>
    <<"U+1F2C", "U+0399">>) @@ (("U+1F9D" :> <<"U+1F2D", "U+0399">>) @@
    ("U+1F9E" :> <<"U+1F2E", "U+0399">>)))) @@ ((("U+1F9F" :> <<"U+1F2F",
    "U+0399">>) @@ (("U+1FA0" :> <<"U+1F68", "U+0399">>) @@ ("U+1FA1" :>
    <<"U+1F69", "U+0399">>))) @@ (("U+1FA2" :> <<"U+1F6A", "U+0399">>) @@
    (("U+1FA3" :> <<"U+1F6B", "U+0399">>) @@ ("U+1FA4" :> <<"U+1F6C",
    "U+0399">>))))) @@ (((("U+1FA5" :> <<"U+1F6D", "U+0399">>) @@ (("U+1FA6"
    :> <<"U+1F6E", "U+0399">>) @@ ("U+1FA7" :> <<"U+1F6F", "U+0399">>))) @@
    (("U+1FA8" :> <<"U+1F68", "U+0399">>) @@ (("U+1FA9" :> <<"U+1F69",
    "U+0399">>) @@ ("U+1FAA" :> <<"U+1F6A", "U+0399">>)))) @@ ((("U+1FAB" :>
    <<"U+1F6B", "U+0399">>) @@ (("U+1FAC" :> <<"U+1F6C", "U+0399">>) @@
    ("U+1FAD" :> <<"U+1F6D", "U+0399">>))) @@ (("U+1FAE" :> <<"U+1F6E",
    "U+0399">>) @@ (("U+1FAF" :> <<"U+1F6F", "U+0399">>) @@ ("U+1FB0" :>
    <<"U+1FB8">>))))))) @@ (((((("U+1FB1" :> <<"U+1FB9">>) @@ (("U+1FB2" :>
    <<"U+1FBA", "U+0399">>) @@ ("U+1FB3" :> <<"U+0391", "U+0399">>))) @@
    (("U+1FB4" :> <<"U+0386", "U+0399">>) @@ (("U+1FB6" :> <<"U+0391",
    "U+0342">>) @@ ("U+1FB7" :> <<"U+0391", "U+0342", "U+0399">>)))) @@
    ((("U+1FBC" :> <<"U+0391", "U+0399">>) @@ (("U+1FBE" :> <<"U+0399">>) @@
    ("U+1FC2" :> <<"U+1FCA", "U+0399">>))) @@ (("U+1FC3" :> <<"U+0397",
    "U+0399">>) @@ (("U+1FC4" :> <<"U+0389", "U+0399">>) @@ ("U+1FC6" :>
    <<"U+0397", "U+0342">>))))) @@ (((("U+1FC7" :> <<"U+0397", "U+0342",
    "U+0399">>) @@ (("U+1FCC" :> <<"U+0397", "U+0399">>) @@ ("U+1FD0" :>
    <<"U+1FD8">>))) @@ (("U+1FD1" :> <<"U+1FD9">>) @@ (("U+1FD2" :>
    <<"U+0399", "U+0308", "U+0300">>) @@ ("U+1FD3" :> <<"U+0399", "U+0308",
    "U+0301">>)))) @@ ((("U+1FD6" :> <<"U+0399", "U+0342">>) @@ (("U+1FD7" :>
    <<"U+0399", "U+0308", "U+0342">>) @@ ("U+1FE0" :> <<"U+1FE8">>))) @@
    (("U+1FE1" :> <<"U+1FE9">>) @@ (("U+1FE2" :> <<"U+03A5", "U+0308",
    "U+0300">>) @@ ("U+1FE3" :> <<"U+03A5", "U+0308", "U+0301">>)))))) @@
    ((((("U+1FE4" :> <<"U+03A1", "U+0313">>) @@ (("U+1FE5" :> <<"U+1FEC">>)
    @@ ("U+1FE6" :> <<"U+03A5", "U+0342">>))) @@ (("U+1FE7" :> <<"U+03A5",
    "U+0308", "U+0342">>) @@ (("U+1FF2" :> <<"U+1FFA", "U+0399">>) @@
    ("U+1FF3" :> <<"U+03A9", "U+0399">>)))) @@ ((("U+1FF4" :> <<"U+038F",
    "U+0399">>) @@ (("U+1FF6" :> <<"U+03A9", "U+0342">>) @@ ("U+1FF7" :>
    <<"U+03A9", "U+0342", "U+0399">>))) @@ (("U+1FFC" :> <<"U+03A9",
    "U+0399">>) @@ (("U+214E" :> <<"U+2132">>) @@ ("U+2170" :>
    <<"U+2160">>))))) @@ (((("U+2171" :> <<"U+2161">>) @@ (("U+2172" :>
    <<"U+2162">>) @@ ("U+2173" :> <<"U+2163">>))) @@ (("U+2174" :>
    <<"U+2164">>) @@ (("U+2175" :> <<"U+2165">>) @@ ("U+2176" :>
    <<"U+2166">>)))) @@ ((("U+2177" :> <<"U+2167">>) @@ (("U+2178" :>
    <<"U+2168">>) @@ ("U+2179" :> <<"U+2169">>))) @@ (("U+217A" :>
    <<"U+216A">>) @@ (("U+217B" :> <<"U+216B">>) @@ ("U+217C" :>
    <<"U+216C">>)))))))) @@ ((((((("U+217D" :> <<"U+216D">>) @@ ("U+217E" :>
    <<"U+216E">>)) @@ (("U+217F" :> <<"U+216F">>) @@ (("U+2184" :>
    <<"U+2183">>) @@ ("U+24D0" :> <<"U+24B6">>)))) @@ ((("U+24D1" :>
    <<"U+24B7">>) @@ (("U+24D2" :> <<"U+24B8">>) @@ ("U+24D3" :>
    <<"U+24B9">>))) @@ (("U+24D4" :> <<"U+24BA">>) @@ (("U+24D5" :>
    <<"U+24BB">>) @@ ("U+24D6" :> <<"U+24BC">>))))) @@ (((("U+24D7" :>
    <<"U+24BD">>) @@ (("U+24D8" :> <<"U+24BE">>) @@ ("U+24D9" :>
    <<"U+24BF">>))) @@ (("U+24DA" :> <<"U+24C0">>) @@ (("U+24DB" :>
    <<"U+24C1">>) @@ ("U+24DC" :> <<"U+24C2">>)))) @@ ((("U+24DD" :>
    <<"U+24C3">>) @@ (("U+24DE" :> <<"U+24C4">>) @@ ("U+24DF" :>
    <<"U+24C5">>))) @@ (("U+24E0" :> <<"U+24C6">>) @@ (("U+24E1" :>
    <<"U+24C7">>) @@ ("U+24E2" :> <<"U+24C8">>)))))) @@ ((((("U+24E3" :>
    <<"U+24C9">>) @@ (("U+24E4" :> <<"U+24CA">>) @@ ("U+24E5" :>
    <<"U+24CB">>))) @@ (("U+24E6" :> <<"U+24CC">>) @@ (("U+24E7" :>
    <<"U+24CD">>) @@ ("U+24E8" :> <<"U+24CE">>)))) @@ ((("U+24E9" :>
    <<"U+24CF">>) @@ (("U+2C30" :> <<"U+2C00">>) @@ ("U+2C31" :>
    <<"U+2C01">>))) @@ (("U+2C32" :> <<"U+2C02">>) @@ (("U+2C33" :>
    <<"U+2C03">>) @@ ("U+2C34" :> <<"U+2C04">>))))) @@ (((("U+2C35" :>
    <<"U+2C05">>) @@ (("U+2C36" :> <<"U+2C06">>) @@ ("U+2C37" :>
    <<"U+2C07">>))) @@ (("U+2C38" :> <<"U+2C08">>) @@ (("U+2C39" :>
    <<"U+2C09">>) @@ ("U+2C3A" :> <<"U+2C0A">>)))) @@ ((("U+2C3B" :>
    <<"U+2C0B">>) @@ (("U+2C3C" :> <<"U+2C0C">>) @@ ("U+2C3D" :>
    <<"U+2C0D">>))) @@ (("U+2C3E" :> <<"U+2C0E">>) @@ (("U+2C3F" :>
    <<"U+2C0F">>) @@ ("U+2C40" :> <<"U+2C10">>))))))) @@ (((((("U+2C41" :>
    <<"U+2C11">>) @@ (("U+2C42" :> <<"U+2C12">>) @@ ("U+2C43" :>
    <<"U+2C13">>))) @@ (("U+2C44" :> <<"U+2C14">>) @@ (("U+2C45" :>
    <<"U+2C15">>) @@ ("U+2C46" :> <<"U+2C16">>)))) @@ ((("U+2C47" :>
    <<"U+2C17">>) @@ (("U+2C48" :> <<"U+2C18">>) @@ ("U+2C49" :>
    <<"U+2C19">>))) @@ (("U+2C4A" :> <<"U+2C1A">>) @@ (("U+2C4B" :>
    <<"U+2C1B">>) @@ ("U+2C4C" :> <<"U+2C1C">>))))) @@ (((("U+2C4D" :>
    <<"U+2C1D">>) @@ (("U+2C4E" :> <<"U+2C1E">>) @@ ("U+2C4F" :>
    <<"U+2C1F">>))) @@ (("U+2C50" :> <<"U+2C20">>) @@ (("U+2C51" :>
    <<"U+2C21">>) @@ ("U+2C52" :> <<"U+2C22">>)))) @@ ((("U+2C53" :>
    <<"U+2C23">>) @@ (("U+2C54" :> <<"U+2C24">>) @@ ("U+2C55" :>
    <<"U+2C25">>))) @@ (("U+2C56" :> <<"U+2C26">>) @@ (("U+2C57" :>
    <<"U+2C27">>) @@ ("U+2C58" :> <<"U+2C28">>)))))) @@ ((((("U+2C59" :>
    <<"U+2C29">>) @@ (("U+2C5A" :> <<"U+2C2A">>) @@ ("U+2C5B" :>
    <<"U+2C2B">>))) @@ (("U+2C5C" :> <<"U+2C2C">>) @@ (("U+2C5D" :>
    <<"U+2C2D">>) @@ ("U+2C5E" :> <<"U+2C2E">>)))) @@ ((("U+2C5F" :>
    <<"U+2C2F">>) @@ (("U+2C61" :> <<"U+2C60">>) @@ ("U+2C65" :>
    <<"U+023A">>))) @@ (("U+2C66" :> <<"U+023E">>) @@ (("U+2C68" :>
    <<"U+2C67">>) @@ ("U+2C6A" :> <<"U+2C69">>))))) @@ (((("U+2C6C" :>
    <<"U+2C6B">>) @@ (("U+2C73" :> <<"U+2C72">>) @@ ("U+2C76" :>
    <<"U+2C75">>))) @@ (("U+2C81" :> <<"U+2C80">>) @@ (("U+2C83" :>
    <<"U+2C82">>) @@ ("U+2C85" :> <<"U+2C84">>)))) @@ ((("U+2C87" :>
    <<"U+2C86">>) @@ (("U+2C89" :> <<"U+2C88">>) @@ ("U+2C8B" :>
    <<"U+2C8A">>))) @@ (("U+2C8D" :> <<"U+2C8C">>) @@ (("U+2C8F" :>
    <<"U+2C8E">>) @@ ("U+2C91" :> <<"U+2C90">>))))))))) @@ (((((((("U+2C93"
    :> <<"U+2C92">>) @@ ("U+2C95" :> <<"U+2C94">>)) @@ (("U+2C97" :>
    <<"U+2C96">>) @@ (("U+2C99" :> <<"U+2C98">>) @@ ("U+2C9B" :>
    <<"U+2C9A">>)))) @@ ((("U+2C9D" :> <<"U+2C9C">>) @@ (("U+2C9F" :>
    <<"U+2C9E">>) @@ ("U+2CA1" :> <<"U+2CA0">>))) @@ (("U+2CA3" :>
    <<"U+2CA2">>) @@ (("U+2CA5" :> <<"U+2CA4">>) @@ ("U+2CA7" :>
    <<"U+2CA6">>))))) @@ (((("U+2CA9" :> <<"U+2CA8">>) @@ (("U+2CAB" :>
    <<"U+2CAA">>) @@ ("U+2CAD" :> <<"U+2CAC">>))) @@ (("U+2CAF" :>
    <<"U+2CAE">>) @@ (("U+2CB1" :> <<"U+2CB0">>) @@ ("U+2CB3" :>
    <<"U+2CB2">>)))) @@ ((("U+2CB5" :> <<"U+2CB4">>) @@ (("U+2CB7" :>
    <<"U+2CB6">>) @@ ("U+2CB9" :> <<"U+2CB8">>))) @@ (("U+2CBB" :>
    <<"U+2CBA">>) @@ (("U+2CBD" :> <<"U+2CBC">>) @@ ("U+2CBF" :>
    <<"U+2CBE">>)))))) @@ ((((("U+2CC1" :> <<"U+2CC0">>) @@ (("U+2CC3" :>
    <<"U+2CC2">>) @@ ("U+2CC5" :> <<"U+2CC4">>))) @@ (("U+2CC7" :>
    <<"U+2CC6">>) @@ (("U+2CC9" :> <<"U+2CC8">>) @@ ("U+2CCB" :>
    <<"U+2CCA">>)))) @@ ((("U+2CCD" :> <<"U+2CCC">>) @@ (("U+2CCF" :>
    <<"U+2CCE">>) @@ ("U+2CD1" :> <<"U+2CD0">>))) @@ (("U+2CD3" :>
    <<"U+2CD2">>) @@ (("U+2CD5" :> <<"U+2CD4">>) @@ ("U+2CD7" :>
    <<"U+2CD6">>))))) @@ (((("U+2CD9" :> <<"U+2CD8">>) @@ (("U+2CDB" :>
    <<"U+2CDA">>) @@ ("U+2CDD" :> <<"U+2CDC">>))) @@ (("U+2CDF" :>
    <<"U+2CDE">>) @@ (("U+2CE1" :> <<"U+2CE0">>) @@ ("U+2CE3" :>
    <<"U+2CE2">>)))) @@ ((("U+2CEC" :> <<"U+2CEB">>) @@ (("U+2CEE" :>
    <<"U+2CED">>) @@ ("U+2CF3" :> <<"U+2CF2">>))) @@ (("U+2D00" :>
    <<"U+10A0">>) @@ (("U+2D01" :> <<"U+10A1">>) @@ ("U+2D02" :>
    <<"U+10A2">>))))))) @@ (((((("U+2D03" :> <<"U+10A3">>) @@ (("U+2D04" :>
    <<"U+10A4">>) @@ ("U+2D05" :> <<"U+10A5">>))) @@ (("U+2D06" :>
    <<"U+10A6">>) @@ (("U+2D07" :> <<"U+10A7">>) @@ ("U+2D08" :>
    <<"U+10A8">>)))) @@ ((("U+2D09" :> <<"U+10A9">>) @@ (("U+2D0A" :>
    <<"U+10AA">>) @@ ("U+2D0B" :> <<"U+10AB">>))) @@ (("U+2D0C" :>
    <<"U+10AC">>) @@ (("U+2D0D" :> <<"U+10AD">>) @@ ("U+2D0E" :>
    <<"U+10AE">>))))) @@ (((("U+2D0F" :> <<"U+10AF">>) @@ (("U+2D10" :>
    <<"U+10B0">>) @@ ("U+2D11" :> <<"U+10B1">>))) @@ (("U+2D12" :>
    <<"U+10B2">>) @@ (("U+2D13" :> <<"U+10B3">>) @@ ("U+2D14" :>
    <<"U+10B4">>)))) @@ ((("U+2D15" :> <<"U+10B5">>) @@ (("U+2D16" :>
    <<"U+10B6">>) @@ ("U+2D17" :> <<"U+10B7">>))) @@ (("U+2D18" :>
    <<"U+10B8">>) @@ (("U+2D19" :> <<"U+10B9">>) @@ ("U+2D1A" :>
    <<"U+10BA">>)))))) @@ ((((("U+2D1B" :> <<"U+10BB">>) @@ (("U+2D1C" :>
    <<"U+10BC">>) @@ ("U+2D1D" :> <<"U+10BD">>))) @@ (("U+2D1E" :>
    <<"U+10BE">>) @@ (("U+2D1F" :> <<"U+10BF">>) @@ ("U+2D20" :>
    <<"U+10C0">>)))) @@ ((("U+2D21" :> <<"U+10C1">>) @@ (("U+2D22" :>
    <<"U+10C2">>) @@ ("U+2D23" :> <<"U+10C3">>))) @@ (("U+2D24" :>
    <<"U+10C4">>) @@ (("U+2D25" :> <<"U+10C5">>) @@ ("U+2D27" :>
    <<"U+10C7">>))))) @@ (((("U+2D2D" :> <<"U+10CD">>) @@ (("U+A641" :>
    <<"U+A640">>) @@ ("U+A643" :> <<"U+A642">>))) @@ (("U+A645" :>
    <<"U+A644">>) @@ (("U+A647" :> <<"U+A646">>) @@ ("U+A649" :>
    <<"U+A648">>)))) @@ ((("U+A64B" :> <<"U+A64A">>) @@ (("U+A64D" :>
    <<"U+A64C">>) @@ ("U+A64F" :> <<"U+A64E">>))) @@ (("U+A651" :>
    <<"U+A650">>) @@ (("U+A653" :> <<"U+A652">>) @@ ("U+A655" :>
    <<"U+A654">>)))))))) @@ ((((((("U+A657" :> <<"U+A656">>) @@ (("U+A659" :>
    <<"U+A658">>) @@ ("U+A65B" :> <<"U+A65A">>))) @@ (("U+A65D" :>
    <<"U+A65C">>) @@ (("U+A65F" :> <<"U+A65E">>) @@ ("U+A661" :>
    <<"U+A660">>)))) @@ ((("U+A663" :> <<"U+A662">>) @@ (("U+A665" :>
    <<"U+A664">>) @@ ("U+A667" :> <<"U+A666">>))) @@ (("U+A669" :>
    <<"U+A668">>) @@ (("U+A66B" :> <<"U+A66A">>) @@ ("U+A66D" :>
    <<"U+A66C">>))))) @@ (((("U+A681" :> <<"U+A680">>) @@ (("U+A683" :>
    <<"U+A682">>) @@ ("U+A685" :> <<"U+A684">>))) @@ (("U+A687" :>
    <<"U+A686">>) @@ (("U+A689" :> <<"U+A688">>) @@ ("U+A68B" :>
    <<"U+A68A">>)))) @@ ((("U+A68D" :> <<"U+A68C">>) @@ (("U+A68F" :>
    <<"U+A68E">>) @@ ("U+A691" :> <<"U+A690">>))) @@ (("U+A693" :>
    <<"U+A692">>) @@ (("U+A695" :> <<"U+A694">>) @@ ("U+A697" :>
    <<"U+A696">>)))))) @@ ((((("U+A699" :> <<"U+A698">>) @@ (("U+A69B" :>
    <<"U+A69A">>) @@ ("U+A723" :> <<"U+A722">>))) @@ (("U+A725" :>
    <<"U+A724">>) @@ (("U+A727" :> <<"U+A726">>) @@ ("U+A729" :>
    <<"U+A728">>)))) @@ ((("U+A72B" :> <<"U+A72A">>) @@ (("U+A72D" :>
    <<"U+A72C">>) @@ ("U+A72F" :> <<"U+A72E">>))) @@ (("U+A733" :>
    <<"U+A732">>) @@ (("U+A735" :> <<"U+A734">>) @@ ("U+A737" :>
    <<"U+A736">>))))) @@ (((("U+A739" :> <<"U+A738">>) @@ (("U+A73B" :>
    <<"U+A73A">>) @@ ("U+A73D" :> <<"U+A73C">>))) @@ (("U+A73F" :>
    <<"U+A73E">>) @@ (("U+A741" :> <<"U+A740">>) @@ ("U+A743" :>
    <<"U+A742">>)))) @@ ((("U+A745" :> <<"U+A744">>) @@ (("U+A747" :>
    <<"U+A746">>) @@ ("U+A749" :> <<"U+A748">>))) @@ (("U+A74B" :>
    <<"U+A74A">>) @@ (("U+A74D" :> <<"U+A74C">>) @@ ("U+A74F" :>
    <<"U+A74E">>))))))) @@ (((((("U+A751" :> <<"U+A750">>) @@ (("U+A753" :>
    <<"U+A752">>) @@ ("U+A755" :> <<"U+A754">>))) @@ (("U+A757" :>
    <<"U+A756">>) @@ (("U+A759" :> <<"U+A758">>) @@ ("U+A75B" :>
    <<"U+A75A">>)))) @@ ((("U+A75D" :> <<"U+A75C">>) @@ (("U+A75F" :>
    <<"U+A75E">>) @@ ("U+A761" :> <<"U+A760">>))) @@ (("U+A763" :>
    <<"U+A762">>) @@ (("U+A765" :> <<"U+A764">>) @@ ("U+A767" :>
    <<"U+A766">>))))) @@ (((("U+A769" :> <<"U+A768">>) @@ (("U+A76B" :>
    <<"U+A76A">>) @@ ("U+A76D" :> <<"U+A76C">>))) @@ (("U+A76F" :>
    <<"U+A76E">>) @@ (("U+A77A" :> <<"U+A779">>) @@ ("U+A77C" :>
    <<"U+A77B">>)))) @@ ((("U+A77F" :> <<"U+A77E">>) @@ (("U+A781" :>
    <<"U+A780">>) @@ ("U+A783" :> <<"U+A782">>))) @@ (("U+A785" :>
    <<"U+A784">>) @@ (("U+A787" :> <<"U+A786">>) @@ ("U+A78C" :>
    <<"U+A78B">>)))))) @@ ((((("U+A791" :> <<"U+A790">>) @@ (("U+A793" :>
    <<"U+A792">>) @@ ("U+A794" :> <<"U+A7C4">>))) @@ (("U+A797" :>
    <<"U+A796">>) @@ (("U+A799" :> <<"U+A798">>) @@ ("U+A79B" :>
    <<"U+A79A">>)))) @@ ((("U+A79D" :> <<"U+A79C">>) @@ (("U+A79F" :>
    <<"U+A79E">>) @@ ("U+A7A1" :> <<"U+A7A0">>))) @@ (("U+A7A3" :>
    <<"U+A7A2">>) @@ (("U+A7A5" :> <<"U+A7A4">>) @@ ("U+A7A7" :>
    <<"U+A7A6">>))))) @@ (((("U+A7A9" :> <<"U+A7A8">>) @@ (("U+A7B5" :>
    <<"U+A7B4">>) @@ ("U+A7B7" :> <<"U+A7B6">>))) @@ (("U+A7B9" :>
    <<"U+A7B8">>) @@ (("U+A7BB" :> <<"U+A7BA">>) @@ ("U+A7BD" :>
    <<"U+A7BC">>)))) @@ ((("U+A7BF" :> <<"U+A7BE">>) @@ (("U+A7C1" :>
    <<"U+A7C0">>) @@ ("U+A7C3" :> <<"U+A7C2">>))) @@ (("U+A7C8" :>
    <<"U+A7C7">>) @@ (("U+A7CA" :> <<"U+A7C9">>) @@ ("U+A7D1" :>
    <<"U+A7D0">>)))))))))) @@ ((((((((("U+A7D7" :> <<"U+A7D6">>) @@ ("U+A7D9"
    :> <<"U+A7D8">>)) @@ (("U+A7F6" :> <<"U+A7F5">>) @@ (("U+AB53" :>
    <<"U+A7B3">>) @@ ("U+AB70" :> <<"U+13A0">>)))) @@ ((("U+AB71" :>
    <<"U+13A1">>) @@ (("U+AB72" :> <<"U+13A2">>) @@ ("U+AB73" :>
    <<"U+13A3">>))) @@ (("U+AB74" :> <<"U+13A4">>) @@ (("U+AB75" :>
    <<"U+13A5">>) @@ ("U+AB76" :> <<"U+13A6">>))))) @@ (((("U+AB77" :>
    <<"U+13A7">>) @@ (("U+AB78" :> <<"U+13A8">>) @@ ("U+AB79" :>
    <<"U+13A9">>))) @@ (("U+AB7A" :> <<"U+13AA">>) @@ (("U+AB7B" :>
    <<"U+13AB">>) @@ ("U+AB7C" :> <<"U+13AC">>)))) @@ ((("U+AB7D" :>
    <<"U+13AD">>) @@ (("U+AB7E" :> <<"U+13AE">>) @@ ("U+AB7F" :>
    <<"U+13AF">>))) @@ (("U+AB80" :> <<"U+13B0">>) @@ (("U+AB81" :>
    <<"U+13B1">>) @@ ("U+AB82" :> <<"U+13B2">>)))))) @@ ((((("U+AB83" :>
    <<"U+13B3">>) @@ (("U+AB84" :> <<"U+13B4">>) @@ ("U+AB85" :>
    <<"U+13B5">>))) @@ (("U+AB86" :> <<"U+13B6">>) @@ (("U+AB87" :>
    <<"U+13B7">>) @@ ("U+AB88" :> <<"U+13B8">>)))) @@ ((("U+AB89" :>
    <<"U+13B9">>) @@ (("U+AB8A" :> <<"U+13BA">>) @@ ("U+AB8B" :>
    <<"U+13BB">>))) @@ (("U+AB8C" :> <<"U+13BC">>) @@ (("U+AB8D" :>
    <<"U+13BD">>) @@ ("U+AB8E" :> <<"U+13BE">>))))) @@ (((("U+AB8F" :>
    <<"U+13BF">>) @@ (("U+AB90" :> <<"U+13C0">>) @@ ("U+AB91" :>
    <<"U+13C1">>))) @@ (("U+AB92" :> <<"U+13C2">>) @@ (("U+AB93" :>
    <<"U+13C3">>) @@ ("U+AB94" :> <<"U+13C4">>)))) @@ ((("U+AB95" :>
    <<"U+13C5">>) @@ (("U+AB96" :> <<"U+13C6">>) @@ ("U+AB97" :>
    <<"U+13C7">>))) @@ (("U+AB98" :> <<"U+13C8">>) @@ (("U+AB99" :>
    <<"U+13C9">>) @@ ("U+AB9A" :> <<"U+13CA">>))))))) @@ (((((("U+AB9B" :>
    <<"U+13CB">>) @@ (("U+AB9C" :> <<"U+13CC">>) @@ ("U+AB9D" :>
    <<"U+13CD">>))) @@ (("U+AB9E" :> <<"U+13CE">>) @@ (("U+AB9F" :>
    <<"U+13CF">>) @@ ("U+ABA0" :> <<"U+13D0">>)))) @@ ((("U+ABA1" :>
    <<"U+13D1">>) @@ (("U+ABA2" :> <<"U+13D2">>) @@ ("U+ABA3" :>
    <<"U+13D3">>))) @@ (("U+ABA4" :> <<"U+13D4">>) @@ (("U+ABA5" :>
    <<"U+13D5">>) @@ ("U+ABA6" :> <<"U+13D6">>))))) @@ (((("U+ABA7" :>
    <<"U+13D7">>) @@ (("U+ABA8" :> <<"U+13D8">>) @@ ("U+ABA9" :>
    <<"U+13D9">>))) @@ (("U+ABAA" :> <<"U+13DA">>) @@ (("U+ABAB" :>
    <<"U+13DB">>) @@ ("U+ABAC" :> <<"U+13DC">>)))) @@ ((("U+ABAD" :>
    <<"U+13DD">>) @@ (("U+ABAE" :> <<"U+13DE">>) @@ ("U+ABAF" :>
    <<"U+13DF">>))) @@ (("U+ABB0" :> <<"U+13E0">>) @@ (("U+ABB1" :>
    <<"U+13E1">>) @@ ("U+ABB2" :> <<"U+13E2">>)))))) @@ ((((("U+ABB3" :>
    <<"U+13E3">>) @@ (("U+ABB4" :> <<"U+13E4">>) @@ ("U+ABB5" :>
    <<"U+13E5">>))) @@ (("U+ABB6" :> <<"U+13E6">>) @@ (("U+ABB7" :>
    <<"U+13E7">>) @@ ("U+ABB8" :> <<"U+13E8">>)))) @@ ((("U+ABB9" :>
    <<"U+13E9">>) @@ (("U+ABBA" :> <<"U+13EA">>) @@ ("U+ABBB" :>
    <<"U+13EB">>))) @@ (("U+ABBC" :> <<"U+13EC">>) @@ (("U+ABBD" :>
    <<"U+13ED">>) @@ ("U+ABBE" :> <<"U+13EE">>))))) @@ (((("U+ABBF" :>
    <<"U+13EF">>) @@ (("U+FB00" :> <<"F", "F">>) @@ ("U+FB01" :> <<"F",
    "I">>))) @@ (("U+FB02" :> <<"F", "L">>) @@ (("U+FB03" :> <<"F", "F",
    "I">>) @@ ("U+FB04" :> <<"F", "F", "L">>)))) @@ ((("U+FB05" :> <<"S",
    "T">>) @@ (("U+FB06" :> <<"S", "T">>) @@ ("U+FB13" :> <<"U+0544",
    "U+0546">>))) @@ (("U+FB14" :> <<"U+0544", "U+0535">>) @@ (("U+FB15" :>
    <<"U+0544", "U+053B">>) @@ ("U+FB16" :> <<"U+054E", "U+0546">>)))))))) @@
    ((((((("U+FB17" :> <<"U+0544", "U+053D">>) @@ (("U+FF41" :> <<"U+FF21">>)
    @@ ("U+FF42" :> <<"U+FF22">>))) @@ (("U+FF43" :> <<"U+FF23">>) @@
    (("U+FF44" :> <<"U+FF24">>) @@ ("U+FF45" :> <<"U+FF25">>)))) @@
    ((("U+FF46" :> <<"U+FF26">>) @@ (("U+FF47" :> <<"U+FF27">>) @@ ("U+FF48"
    :> <<"U+FF28">>))) @@ (("U+FF49" :> <<"U+FF29">>) @@ (("U+FF4A" :>
    <<"U+FF2A">>) @@ ("U+FF4B" :> <<"U+FF2B">>))))) @@ (((("U+FF4C" :>
    <<"U+FF2C">>) @@ (("U+FF4D" :> <<"U+FF2D">>) @@ ("U+FF4E" :>
    <<"U+FF2E">>))) @@ (("U+FF4F" :> <<"U+FF2F">>) @@ (("U+FF50" :>
    <<"U+FF30">>) @@ ("U+FF51" :> <<"U+FF31">>)))) @@ ((("U+FF52" :>
    <<"U+FF32">>) @@ (("U+FF53" :> <<"U+FF33">>) @@ ("U+FF54" :>
    <<"U+FF34">>))) @@ (("U+FF55" :> <<"U+FF35">>) @@ (("U+FF56" :>
    <<"U+FF36">>) @@ ("U+FF57" :> <<"U+FF37">>)))))) @@ ((((("U+FF58" :>
    <<"U+FF38">>) @@ (("U+FF59" :> <<"U+FF39">>) @@ ("U+FF5A" :>
    <<"U+FF3A">>))) @@ (("U+10428" :> <<"U+10400">>) @@ (("U+10429" :>
    <<"U+10401">>) @@ ("U+1042A" :> <<"U+10402">>)))) @@ ((("U+1042B" :>
    <<"U+10403">>) @@ (("U+1042C" :> <<"U+10404">>) @@ ("U+1042D" :>
    <<"U+10405">>))) @@ (("U+1042E" :> <<"U+10406">>) @@ (("U+1042F" :>
    <<"U+10407">>) @@ ("U+10430" :> <<"U+10408">>))))) @@ (((("U+10431" :>
    <<"U+10409">>) @@ (("U+10432" :> <<"U+1040A">>) @@ ("U+10433" :>
    <<"U+1040B">>))) @@ (("U+10434" :> <<"U+1040C">>) @@ (("U+10435" :>
    <<"U+1040D">>) @@ ("U+10436" :> <<"U+1040E">>)))) @@ ((("U+10437" :>
    <<"U+1040F">>) @@ (("U+10438" :> <<"U+10410">>) @@ ("U+10439" :>
    <<"U+10411">>))) @@ (("U+1043A" :> <<"U+10412">>) @@ (("U+1043B" :>
    <<"U+10413">>) @@ ("U+1043C" :> <<"U+10414">>))))))) @@ (((((("U+1043D"
    :> <<"U+10415">>) @@ (("U+1043E" :> <<"U+10416">>) @@ ("U+1043F" :>
    <<"U+10417">>))) @@ (("U+10440" :> <<"U+10418">>) @@ (("U+10441" :>
    <<"U+10419">>) @@ ("U+10442" :> <<"U+1041A">>)))) @@ ((("U+10443" :>
    <<"U+1041B">>) @@ (("U+10444" :> <<"U+1041C">>) @@ ("U+10445" :>
    <<"U+1041D">>))) @@ (("U+10446" :> <<"U+1041E">>) @@ (("U+10447" :>
    <<"U+1041F">>) @@ ("U+10448" :> <<"U+10420">>))))) @@ (((("U+10449" :>
    <<"U+10421">>) @@ (("U+1044A" :> <<"U+10422">>) @@ ("U+1044B" :>
    <<"U+10423">>))) @@ (("U+1044C" :> <<"U+10424">>) @@ (("U+1044D" :>
    <<"U+10425">>) @@ ("U+1044E" :> <<"U+10426">>)))) @@ ((("U+1044F" :>
    <<"U+10427">>) @@ (("U+104D8" :> <<"U+104B0">>) @@ ("U+104D9" :>
    <<"U+104B1">>))) @@ (("U+104DA" :> <<"U+104B2">>) @@ (("U+104DB" :>
    <<"U+104B3">>) @@ ("U+104DC" :> <<"U+104B4">>)))))) @@ ((((("U+104DD" :>
    <<"U+104B5">>) @@ (("U+104DE" :> <<"U+104B6">>) @@ ("U+104DF" :>
    <<"U+104B7">>))) @@ (("U+104E0" :> <<"U+104B8">>) @@ (("U+104E1" :>
    <<"U+104B9">>) @@ ("U+104E2" :> <<"U+104BA">>)))) @@ ((("U+104E3" :>
    <<"U+104BB">>) @@ (("U+104E4" :> <<"U+104BC">>) @@ ("U+104E5" :>
    <<"U+104BD">>))) @@ (("U+104E6" :> <<"U+104BE">>) @@ (("U+104E7" :>
    <<"U+104BF">>) @@ ("U+104E8" :> <<"U+104C0">>))))) @@ (((("U+104E9" :>
    <<"U+104C1">>) @@ (("U+104EA" :> <<"U+104C2">>) @@ ("U+104EB" :>
    <<"U+104C3">>))) @@ (("U+104EC" :> <<"U+104C4">>) @@ (("U+104ED" :>
    <<"U+104C5">>) @@ ("U+104EE" :> <<"U+104C6">>)))) @@ ((("U+104EF" :>
    <<"U+104C7">>) @@ (("U+104F0" :> <<"U+104C8">>) @@ ("U+104F1" :>
    <<"U+104C9">>))) @@ (("U+104F2" :> <<"U+104CA">>) @@ (("U+104F3" :>
    <<"U+104CB">>) @@ ("U+104F4" :> <<"U+104CC">>))))))))) @@
    (((((((("U+104F5" :> <<"U+104CD">>) @@ ("U+104F6" :> <<"U+104CE">>)) @@
    (("U+104F7" :> <<"U+104CF">>) @@ (("U+104F8" :> <<"U+104D0">>) @@
    ("U+104F9" :> <<"U+104D1">>)))) @@ ((("U+104FA" :> <<"U+104D2">>) @@
    (("U+104FB" :> <<"U+104D3">>) @@ ("U+10597" :> <<"U+10570">>))) @@
    (("U+10598" :> <<"U+10571">>) @@ (("U+10599" :> <<"U+10572">>) @@
    ("U+1059A" :> <<"U+10573">>))))) @@ (((("U+1059B" :> <<"U+10574">>) @@
    (("U+1059C" :> <<"U+10575">>) @@ ("U+1059D" :> <<"U+10576">>))) @@
    (("U+1059E" :> <<"U+10577">>) @@ (("U+1059F" :> <<"U+10578">>) @@
    ("U+105A0" :> <<"U+10579">>)))) @@ ((("U+105A1" :> <<"U+1057A">>) @@
    (("U+105A3" :> <<"U+1057C">>) @@ ("U+105A4" :> <<"U+1057D">>))) @@
    (("U+105A5" :> <<"U+1057E">>) @@ (("U+105A6" :> <<"U+1057F">>) @@
    ("U+105A7" :> <<"U+10580">>)))))) @@ ((((("U+105A8" :> <<"U+10581">>) @@
    (("U+105A9" :> <<"U+10582">>) @@ ("U+105AA" :> <<"U+10583">>))) @@
    (("U+105AB" :> <<"U+10584">>) @@ (("U+105AC" :> <<"U+10585">>) @@
    ("U+105AD" :> <<"U+10586">>)))) @@ ((("U+105AE" :> <<"U+10587">>) @@
    (("U+105AF" :> <<"U+10588">>) @@ ("U+105B0" :> <<"U+10589">>))) @@
    (("U+105B1" :> <<"U+1058A">>) @@ (("U+105B3" :> <<"U+1058C">>) @@
    ("U+105B4" :> <<"U+1058D">>))))) @@ (((("U+105B5" :> <<"U+1058E">>) @@
    (("U+105B6" :> <<"U+1058F">>) @@ ("U+105B7" :> <<"U+10590">>))) @@
    (("U+105B8" :> <<"U+10591">>) @@ (("U+105B9" :> <<"U+10592">>) @@
    ("U+105BB" :> <<"U+10594">>)))) @@ ((("U+105BC" :> <<"U+10595">>) @@
    (("U+10CC0" :> <<"U+10C80">>) @@ ("U+10CC1" :> <<"U+10C81">>))) @@
    (("U+10CC2" :> <<"U+10C82">>) @@ (("U+10CC3" :> <<"U+10C83">>) @@
    ("U+10CC4" :> <<"U+10C84">>))))))) @@ (((((("U+10CC5" :> <<"U+10C85">>)
    @@ (("U+10CC6" :> <<"U+10C86">>) @@ ("U+10CC7" :> <<"U+10C87">>))) @@
    (("U+10CC8" :> <<"U+10C88">>) @@ (("U+10CC9" :> <<"U+10C89">>) @@
    ("U+10CCA" :> <<"U+10C8A">>)))) @@ ((("U+10CCB" :> <<"U+10C8B">>) @@
    (("U+10CCC" :> <<"U+10C8C">>) @@ ("U+10CCD" :> <<"U+10C8D">>))) @@
    (("U+10CCE" :> <<"U+10C8E">>) @@ (("U+10CCF" :> <<"U+10C8F">>) @@
    ("U+10CD0" :> <<"U+10C90">>))))) @@ (((("U+10CD1" :> <<"U+10C91">>) @@
    (("U+10CD2" :> <<"U+10C92">>) @@ ("U+10CD3" :> <<"U+10C93">>))) @@
    (("U+10CD4" :> <<"U+10C94">>) @@ (("U+10CD5" :> <<"U+10C95">>) @@
    ("U+10CD6" :> <<"U+10C96">>)))) @@ ((("U+10CD7" :> <<"U+10C97">>) @@
    (("U+10CD8" :> <<"U+10C98">>) @@ ("U+10CD9" :> <<"U+10C99">>))) @@
    (("U+10CDA" :> <<"U+10C9A">>) @@ (("U+10CDB" :> <<"U+10C9B">>) @@
    ("U+10CDC" :> <<"U+10C9C">>)))))) @@ ((((("U+10CDD" :> <<"U+10C9D">>) @@
    (("U+10CDE" :> <<"U+10C9E">>) @@ ("U+10CDF" :> <<"U+10C9F">>))) @@
    (("U+10CE0" :> <<"U+10CA0">>) @@ (("U+10CE1" :> <<"U+10CA1">>) @@
    ("U+10CE2" :> <<"U+10CA2">>)))) @@ ((("U+10CE3" :> <<"U+10CA3">>) @@
    (("U+10CE4" :> <<"U+10CA4">>) @@ ("U+10CE5" :> <<"U+10CA5">>))) @@
    (("U+10CE6" :> <<"U+10CA6">>) @@ (("U+10CE7" :> <<"U+10CA7">>) @@
    ("U+10CE8" :> <<"U+10CA8">>))))) @@ (((("U+10CE9" :> <<"U+10CA9">>) @@
    (("U+10CEA" :> <<"U+10CAA">>) @@ ("U+10CEB" :> <<"U+10CAB">>))) @@
    (("U+10CEC" :> <<"U+10CAC">>) @@ (("U+10CED" :> <<"U+10CAD">>) @@
    ("U+10CEE" :> <<"U+10CAE">>)))) @@ ((("U+10CEF" :> <<"U+10CAF">>) @@
    (("U+10CF0" :> <<"U+10CB0">>) @@ ("U+10CF1" :> <<"U+10CB1">>))) @@
    (("U+10CF2" :> <<"U+10CB2">>) @@ (("U+118C0" :> <<"U+118A0">>) @@
    ("U+118C1" :> <<"U+118A1">>)))))))) @@ ((((((("U+118C2" :> <<"U+118A2">>)
    @@ (("U+118C3" :> <<"U+118A3">>) @@ ("U+118C4" :> <<"U+118A4">>))) @@
    (("U+118C5" :> <<"U+118A5">>) @@ (("U+118C6" :> <<"U+118A6">>) @@
    ("U+118C7" :> <<"U+118A7">>)))) @@ ((("U+118C8" :> <<"U+118A8">>) @@
    (("U+118C9" :> <<"U+118A9">>) @@ ("U+118CA" :> <<"U+118AA">>))) @@
    (("U+118CB" :> <<"U+118AB">>) @@ (("U+118CC" :> <<"U+118AC">>) @@
    ("U+118CD" :> <<"U+118AD">>))))) @@ (((("U+118CE" :> <<"U+118AE">>) @@
    (("U+118CF" :> <<"U+118AF">>) @@ ("U+118D0" :> <<"U+118B0">>))) @@
    (("U+118D1" :> <<"U+118B1">>) @@ (("U+118D2" :> <<"U+118B2">>) @@
    ("U+118D3" :> <<"U+118B3">>)))) @@ ((("U+118D4" :> <<"U+118B4">>) @@
    (("U+118D5" :> <<"U+118B5">>) @@ ("U+118D6" :> <<"U+118B6">>))) @@
    (("U+118D7" :> <<"U+118B7">>) @@ (("U+118D8" :> <<"U+118B8">>) @@
    ("U+118D9" :> <<"U+118B9">>)))))) @@ ((((("U+118DA" :> <<"U+118BA">>) @@
    (("U+118DB" :> <<"U+118BB">>) @@ ("U+118DC" :> <<"U+118BC">>))) @@
    (("U+118DD" :> <<"U+118BD">>) @@ (("U+118DE" :> <<"U+118BE">>) @@
    ("U+118DF" :> <<"U+118BF">>)))) @@ ((("U+16E60" :> <<"U+16E40">>) @@
    (("U+16E61" :> <<"U+16E41">>) @@ ("U+16E62" :> <<"U+16E42">>))) @@
    (("U+16E63" :> <<"U+16E43">>) @@ (("U+16E64" :> <<"U+16E44">>) @@
    ("U+16E65" :> <<"U+16E45">>))))) @@ (((("U+16E66" :> <<"U+16E46">>) @@
    (("U+16E67" :> <<"U+16E47">>) @@ ("U+16E68" :> <<"U+16E48">>))) @@
    (("U+16E69" :> <<"U+16E49">>) @@ (("U+16E6A" :> <<"U+16E4A">>) @@
    ("U+16E6B" :> <<"U+16E4B">>)))) @@ ((("U+16E6C" :> <<"U+16E4C">>) @@
    (("U+16E6D" :> <<"U+16E4D">>) @@ ("U+16E6E" :> <<"U+16E4E">>))) @@
    (("U+16E6F" :> <<"U+16E4F">>) @@ (("U+16E70" :> <<"U+16E50">>) @@
    ("U+16E71" :> <<"U+16E51">>))))))) @@ (((((("U+16E72" :> <<"U+16E52">>)
    @@ (("U+16E73" :> <<"U+16E53">>) @@ ("U+16E74" :> <<"U+16E54">>))) @@
    (("U+16E75" :> <<"U+16E55">>) @@ (("U+16E76" :> <<"U+16E56">>) @@
    ("U+16E77" :> <<"U+16E57">>)))) @@ ((("U+16E78" :> <<"U+16E58">>) @@
    (("U+16E79" :> <<"U+16E59">>) @@ ("U+16E7A" :> <<"U+16E5A">>))) @@
    (("U+16E7B" :> <<"U+16E5B">>) @@ (("U+16E7C" :> <<"U+16E5C">>) @@
    ("U+16E7D" :> <<"U+16E5D">>))))) @@ (((("U+16E7E" :> <<"U+16E5E">>) @@
    (("U+16E7F" :> <<"U+16E5F">>) @@ ("U+1E922" :> <<"U+1E900">>))) @@
    (("U+1E923" :> <<"U+1E901">>) @@ (("U+1E924" :> <<"U+1E902">>) @@
    ("U+1E925" :> <<"U+1E903">>)))) @@ ((("U+1E926" :> <<"U+1E904">>) @@
    (("U+1E927" :> <<"U+1E905">>) @@ ("U+1E928" :> <<"U+1E906">>))) @@
    (("U+1E929" :> <<"U+1E907">>) @@ (("U+1E92A" :> <<"U+1E908">>) @@
    ("U+1E92B" :> <<"U+1E909">>)))))) @@ ((((("U+1E92C" :> <<"U+1E90A">>) @@
    (("U+1E92D" :> <<"U+1E90B">>) @@ ("U+1E92E" :> <<"U+1E90C">>))) @@
    (("U+1E92F" :> <<"U+1E90D">>) @@ (("U+1E930" :> <<"U+1E90E">>) @@
    ("U+1E931" :> <<"U+1E90F">>)))) @@ ((("U+1E932" :> <<"U+1E910">>) @@
    (("U+1E933" :> <<"U+1E911">>) @@ ("U+1E934" :> <<"U+1E912">>))) @@
    (("U+1E935" :> <<"U+1E913">>) @@ (("U+1E936" :> <<"U+1E914">>) @@
    ("U+1E937" :> <<"U+1E915">>))))) @@ (((("U+1E938" :> <<"U+1E916">>) @@
    (("U+1E939" :> <<"U+1E917">>) @@ ("U+1E93A" :> <<"U+1E918">>))) @@
    (("U+1E93B" :> <<"U+1E919">>) @@ (("U+1E93C" :> <<"U+1E91A">>) @@
    ("U+1E93D" :> <<"U+1E91B">>)))) @@ ((("U+1E93E" :> <<"U+1E91C">>) @@
    (("U+1E93F" :> <<"U+1E91D">>) @@ ("U+1E940" :> <<"U+1E91E">>))) @@
    (("U+1E941" :> <<"U+1E91F">>) @@ (("U+1E942" :> <<"U+1E920">>) @@
    ("U+1E943" :> <<"U+1E921">>))))))))))))

UpperChanged == DOMAIN UpperMap

UpperChar(c) == IF c \in UpperChanged THEN UpperMap[c] ELSE <<c>>

\* str.upper()
RECURSIVE Upper(_)
Upper(s) == IF s = <<>> THEN <<>> ELSE UpperChar(Head(s)) \o Upper(Tail(s))

NULLWord == <<"N", "U", "L", "L">>

\* value.replace("'", "''")
RECURSIVE sql_escape(_)
sql_escape(value) ==
    IF value = <<>> THEN <<>>
    ELSE (IF Head(value) = "'" THEN <<"'", "'">> ELSE <<Head(value)>>)
         \o sql_escape(Tail(value))

----------------------------------------------------------------------------
\* parse_values_tuples: one action per branch of the while loop.

n == Len(sql_fragment)
ch == sql_fragment[i + 1]

\* v = token.strip(); None if v.upper() == "NULL" else v
FieldOf(tok) ==
    LET v == Strip(tok) IN IF Upper(v) = NULLWord THEN Null ELSE Str(v)

Scanning == ppc = "scan" /\ i < n

\* not in_tuple: skip to the next "("
ScanOutside ==
    /\ Scanning
    /\ ~in_tuple
    /\ IF ch = "("
       THEN /\ in_tuple' = TRUE
            /\ in_str' = FALSE
            /\ current' = <<>>
            /\ token' = <<>>
       ELSE UNCHANGED <<in_tuple, in_str, current, token>>
    /\ i' = i + 1
    /\ UNCHANGED <<src, sql_fragment, tuples, ppc>>
    /\ UNCHANGED <<jvars, svars, mvars>>

\* in_str, ch == "'" followed by "'": the escaped quote
ScanEscapedQuote ==
    /\ Scanning
    /\ in_tuple /\ in_str
    /\ ch = "'"
    /\ i + 1 < n /\ sql_fragment[i + 2] = "'"
    /\ token' = Append(token, "'")
    /\ i' = i + 2
    /\ UNCHANGED <<src, sql_fragment, in_tuple, in_str, current, tuples, ppc>>
    /\ UNCHANGED <<jvars, svars, mvars>>

\* in_str, a lone "'": the literal ends
ScanCloseQuote ==
    /\ Scanning
    /\ in_tuple /\ in_str
    /\ ch = "'"
    /\ ~(i + 1 < n /\ sql_fragment[i + 2] = "'")
    /\ in_str' = FALSE
    /\ i' = i + 1
    /\ UNCHANGED <<src, sql_fragment, in_tuple, current, token, tuples, ppc>>
    /\ UNCHANGED <<jvars, svars, mvars>>

\* in_str, any other character: token += ch
InStrAppend ==
    /\ token' = Append(token, ch)
    /\ i' = i + 1
    /\ UNCHANGED <<src, sql_fragment, in_tuple, in_str, current, tuples, ppc>>
    /\ UNCHANGED <<jvars, svars, mvars>>

ScanInStr ==
    /\ Scanning
    /\ in_tuple /\ in_str
    /\ ch # "'"
    /\ InStrAppend

\* in the tuple, outside a literal, ch == "'"
ScanOpenQuote ==
    /\ Scanning
    /\ in_tuple /\ ~in_str
    /\ ch = "'"
    /\ in_str' = TRUE
    /\ i' = i + 1
    /\ UNCHANGED <<src, sql_fragment, in_tuple, current, token, tuples, ppc>>
    /\ UNCHANGED <<jvars, svars, mvars>>

\* ch == ","
ScanComma ==
    /\ Scanning
    /\ in_tuple /\ ~in_str
    /\ ch = ","
    /\ current' = Append(current, FieldOf(token))
    /\ token' = <<>>
    /\ i' = i + 1
    /\ UNCHANGED <<src, sql_fragment, in_tuple, in_str, tuples, ppc>>
    /\ UNCHANGED <<jvars, svars, mvars>>

\* ch == ")"
ScanCloseParen ==
    /\ Scanning
    /\ in_tuple /\ ~in_str
    /\ ch = ")"
    /\ current' = Append(current, FieldOf(token))
    /\ tuples' = Append(tuples, current')
    /\ in_tuple' = FALSE
    /\ token' = <<>>
    /\ i' = i + 1
    /\ UNCHANGED <<src, sql_fragment, in_str, ppc>>
    /\ UNCHANGED <<jvars, svars, mvars>>

\* any other character outside a literal: token += ch
ScanOther ==
    /\ Scanning
    /\ in_tuple /\ ~in_str
    /\ ch \notin {"'", ",", ")"}
    /\ token' = Append(token, ch)
    /\ i' = i + 1
    /\ UNCHANGED <<src, sql_fragment, in_tuple, in_str, current, tuples, ppc>>
    /\ UNCHANGED <<jvars, svars, mvars>>

\* the loop ends: return tuples
ParseReturn ==
    /\ ppc = "scan"
    /\ ~(i < n)
    /\ ppc' = "done"
    /\ UNCHANGED <<src, sql_fragment, i, in_tuple, in_str, current, token, tuples>>
    /\ UNCHANGED <<jvars, svars, mvars>>

----------------------------------------------------------------------------
\* The spans the scanner is run on.

SeqsUpTo(S, k) == UNION {[1..m -> S] : m \in 0..k}

RawChars == {"a", " ", "\t"}
QuotedChars == {"a", " ", ",", "(", ")", "'"}
NullWords == {NULLWord, <<"n", "u", "L", "l">>}

\* what one field of a tuple is written from: an unquoted token, or the
\* content of a quoted literal
FieldSrc ==
    [quoted : {FALSE}, text : SeqsUpTo(RawChars, MaxTokenLen) \cup NullWords]
    \cup [quoted : {TRUE}, text : SeqsUpTo(QuotedChars, MaxTokenLen) \cup NullWords]

\* the fields that accompany the one freely chosen field of a tuple
Filler ==
    { [quoted |-> FALSE, text |-> NULLWord],
      [quoted |-> TRUE,  text |-> <<",", ")">>] }

TupleSrcs ==
    UNION { { [j \in 1..m |-> IF j = k THEN f ELSE g[j]] :
                k \in 1..m, f \in FieldSrc, g \in [1..m -> Filler] }
            : m \in 1..MaxFields }

\* a literal as the scripts write it: f"'{sql_escape(label)}'"
RenderField(f) ==
    IF f.quoted THEN <<"'">> \o sql_escape(f.text) \o <<"'">> ELSE f.text

RECURSIVE RenderFields(_, _)
RenderFields(fs, sep) ==
    IF Len(fs) = 1 THEN RenderField(fs[1])
    ELSE RenderField(fs[1]) \o sep \o RenderFields(Tail(fs), sep)

\* " (f1, f2)": the span after VALUES, up to the ";"
RenderSpan(fs, sep) == <<" ", "(">> \o RenderFields(fs, sep) \o <<")">>

Seps == {<<",">>, <<",", " ">>, <<",", "\n", "">>}

\* the other scripts are not running
JsonIdle ==
    /\ objs = <<>> /\ fields = <<>> /\ target_langs = <<>> /\ output_mode = "1"
    /\ positions = <<>> /\ texts = <<>> /\ lang_idx = 0 /\ batch_i = 0
    /\ translated_all = <<>> /\ attempt = 0 /\ last_err = "none" /\ err = "none"
    /\ calls = 0 /\ outcome = "none" /\ ret_attempt = 0 /\ last_sleep = 0
    /\ output = [written |-> FALSE, data |-> <<>>]
    /\ jpc = "idle"

SqlIdle ==
    /\ script = "none" /\ sql_text = <<>> /\ all_rows = <<>> /\ blank_target = "none"
    /\ rec_idx = 0 /\ loc_idx = 0 /\ values_sql = <<>> /\ call_log = <<>>
    /\ sattempts = 0 /\ serr = "none"
    /\ sql_out = [written |-> FALSE, rows |-> <<>>]
    /\ spc = "idle"

EmptyDict == [k \in {} |-> <<>>]

MultiIdle ==
    /\ m_script = "none" /\ translated = EmptyDict
    /\ items = <<>> /\ m_target_langs = <<>> /\ m_lang_idx = 0 /\ m_i = 0
    /\ translated_for_lang = EmptyDict /\ result = EmptyDict
    /\ m_last_sleep = 0 /\ m_err = "none"
    /\ m_output = [written |-> FALSE, data |-> EmptyDict]
    /\ mpc = "idle"

InitParse ==
    /\ src \in TupleSrcs
    /\ \E sep \in Seps :
         \E cut \in 0..Len(RenderSpan(src, sep)) :
            sql_fragment = SubSeq(RenderSpan(src, sep), 1, cut)
    /\ i = 0
    /\ in_tuple = FALSE
    /\ in_str = FALSE
    /\ current = <<>>
    /\ token = <<>>
    /\ tuples = <<>>
    /\ ppc = "scan"
    /\ JsonIdle
    /\ SqlIdle
    /\ MultiIdle

NextParse ==
    \/ ScanOutside
    \/ ScanEscapedQuote
    \/ ScanCloseQuote
    \/ ScanInStr
    \/ ScanOpenQuote
    \/ ScanComma
    \/ ScanCloseParen
    \/ ScanOther
    \/ ParseReturn

SpecParse == InitParse /\ [][NextParse]_vars

----------------------------------------------------------------------------
\* Claims about parse_values_tuples.

\* the scan has returned, and the span was a whole rendered tuple
Complete == \E sep \in Seps : sql_fragment = RenderSpan(src, sep)
Returned == ppc = "done"

IsNullToken(text) == Upper(Strip(text)) = NULLWord
HasDelimiter(text) == \E k \in 1..Len(text) : text[k] \in {",", "(", ")"}

\* C1: an unquoted NULL (any case, trimmed) parses to a null Field and a
\* quoted literal, 'NULL' included, parses to a string Field: a field that
\* was written as a quoted literal is never returned as null.
C1_NullNeverConflated ==
    (Returned /\ Complete) =>
        /\ Len(tuples) = 1
        /\ Len(tuples[1]) = Len(src)
        /\ \A k \in 1..Len(src) :
            /\ (~src[k].quoted /\ IsNullToken(src[k].text)) => tuples[1][k] = Null
            /\ src[k].quoted => ~tuples[1][k].null
            /\ (src[k].quoted /\ src[k].text = NULLWord) => tuples[1][k] = Str(NULLWord)

\* the unquoted half of C1 does happen: an unquoted nUlL came back null
C1_Witness ==
    /\ Returned /\ Complete
    /\ \E k \in 1..Len(src) :
        /\ ~src[k].quoted /\ src[k].text # NULLWord /\ IsNullToken(src[k].text)
        /\ Len(tuples) = 1 /\ Len(tuples[1]) = Len(src)
        /\ tuples[1][k] = Null

\* C2: the scan returns normally only from the outside state; end of input
\* inside a tuple or inside a literal is never a normal return.
C2_EndInsideIsError ==
    Returned => (~in_tuple /\ ~in_str)

\* C3: while the scanner is inside a quoted literal a comma never ends the
\* field and a parenthesis never opens or closes a tuple, so in a whole tuple
\* a quoted field holding a comma or a parenthesis comes back as one field
\* equal to the whole quoted content, and the field count is that of the
\* tuple.
C3_QuotedDelimitersWhole ==
    (Returned /\ Complete) =>
        /\ Len(tuples) = 1
        /\ Len(tuples[1]) = Len(src)
        /\ \A k \in 1..Len(src) :
            (src[k].quoted /\ HasDelimiter(src[k].text))
                => tuples[1][k] = Str(src[k].text)

\* a two-field tuple whose quoted field holds a comma and an outer space
C3_Witness ==
    /\ Returned /\ Complete
    /\ Len(src) = 2
    /\ Len(tuples) = 1 /\ Len(tuples[1]) = 2
    /\ \E k \in 1..2 :
        /\ src[k].quoted
        /\ \E j \in 1..Len(src[k].text) : src[k].text[j] = ","
        /\ Strip(src[k].text) # src[k].text
        /\ tuples[1][k] = Str(Strip(src[k].text))

\* C4: parsing the one-field tuple quote + sql_escape(s) + quote gives
\* exactly the field s, and re-escaping the parsed value gives the literal
\* back.
C4_EscapeParseInverse ==
    (Returned /\ Complete /\ Len(src) = 1 /\ src[1].quoted) =>
        /\ tuples = << << Str(src[1].text) >> >>
        /\ RenderField([quoted |-> TRUE, text |-> tuples[1][1].val])
             = RenderField(src[1])

\* C5: a whole single group gives exactly one RowTuple with one field per
\* top-level field, in order: an unquoted token is its trimmed text (null
\* for NULL), a quoted token is its content.
C5_Expected(f) ==
    IF f.quoted THEN Str(f.text)
    ELSE IF IsNullToken(f.text) THEN Null ELSE Str(Strip(f.text))

C5_SingleTupleFields ==
    (Returned /\ Complete) =>
        tuples = << [k \in 1..Len(src) |-> C5_Expected(src[k])] >>

----------------------------------------------------------------------------
\* activity_translator.py: translate_objects_file and what it calls.
\* Field names are strings too; their atoms are whole words, the code never
\* looks inside them ("name").  Language codes are sequences of characters.

BATCH_SIZE == 50
max_attempts == 4
\* base_sleep = 2.0 seconds, in tenths of a second
base_sleep == 20
\* time.sleep(0.5) after each batch, in tenths of a second
batch_sleep == 5

Min(a, b) == IF a < b THEN a ELSE b

\* obj.get(f, None); a value that is not a str is Null
Get(obj, f) == IF f \in DOMAIN obj THEN obj[f] ELSE Null

\* obj[key] = t
Put(obj, key, t) ==
    [k \in DOMAIN obj \cup {key} |-> IF k = key THEN Str(t) ELSE obj[k]]

\* str.lower() on one character, for every character it changes: a sequence,
\* U+0130 gives two characters
LowerMap ==
    ((((((((((("A" :> <<"a">>) @@ ("B" :> <<"b">>)) @@ (("C" :> <<"c">>) @@
    (("D" :> <<"d">>) @@ ("E" :> <<"e">>)))) @@ ((("F" :> <<"f">>) @@ (("G"
    :> <<"g">>) @@ ("H" :> <<"h">>))) @@ (("I" :> <<"i">>) @@ (("J" :>
    <<"j">>) @@ ("K" :> <<"k">>))))) @@ (((("L" :> <<"l">>) @@ ("M" :>
    <<"m">>)) @@ (("N" :> <<"n">>) @@ (("O" :> <<"o">>) @@ ("P" :>
    <<"p">>)))) @@ ((("Q" :> <<"q">>) @@ (("R" :> <<"r">>) @@ ("S" :>
    <<"s">>))) @@ (("T" :> <<"t">>) @@ (("U" :> <<"u">>) @@ ("V" :>
    <<"v">>)))))) @@ ((((("W" :> <<"w">>) @@ ("X" :> <<"x">>)) @@ (("Y" :>
    <<"y">>) @@ (("Z" :> <<"z">>) @@ ("À" :> <<"à">>)))) @@ ((("Á" :>
    <<"á">>) @@ (("Â" :> <<"â">>) @@ ("Ã" :> <<"ã">>))) @@ (("Ä" :> <<"ä">>)
    @@ (("Å" :> <<"å">>) @@ ("Æ" :> <<"æ">>))))) @@ (((("Ç" :> <<"ç">>) @@
    ("È" :> <<"è">>)) @@ (("É" :> <<"é">>) @@ (("Ê" :> <<"ê">>) @@ ("Ë" :>
    <<"ë">>)))) @@ ((("Ì" :> <<"ì">>) @@ (("Í" :> <<"í">>) @@ ("Î" :>
    <<"î">>))) @@ (("Ï" :> <<"ï">>) @@ (("Ð" :> <<"ð">>) @@ ("Ñ" :>
    <<"ñ">>))))))) @@ (((((("Ò" :> <<"ò">>) @@ ("Ó" :> <<"ó">>)) @@ (("Ô" :>
    <<"ô">>) @@ (("Õ" :> <<"õ">>) @@ ("Ö" :> <<"ö">>)))) @@ ((("Ø" :>
    <<"ø">>) @@ (("Ù" :> <<"ù">>) @@ ("Ú" :> <<"ú">>))) @@ (("Û" :> <<"û">>)
    @@ (("Ü" :> <<"ü">>) @@ ("Ý" :> <<"ý">>))))) @@ (((("Þ" :> <<"þ">>) @@
    ("U+0100" :> <<"U+0101">>)) @@ (("U+0102" :> <<"U+0103">>) @@ (("U+0104"
    :> <<"U+0105">>) @@ ("U+0106" :> <<"U+0107">>)))) @@ ((("U+0108" :>
    <<"U+0109">>) @@ (("U+010A" :> <<"U+010B">>) @@ ("U+010C" :>
    <<"U+010D">>))) @@ (("U+010E" :> <<"U+010F">>) @@ (("U+0110" :>
    <<"U+0111">>) @@ ("U+0112" :> <<"U+0113">>)))))) @@ ((((("U+0114" :>
    <<"U+0115">>) @@ ("U+0116" :> <<"U+0117">>)) @@ (("U+0118" :>
    <<"U+0119">>) @@ (("U+011A" :> <<"U+011B">>) @@ ("U+011C" :>
    <<"U+011D">>)))) @@ ((("U+011E" :> <<"U+011F">>) @@ (("U+0120" :>
    <<"U+0121">>) @@ ("U+0122" :> <<"U+0123">>))) @@ (("U+0124" :>
    <<"U+0125">>) @@ (("U+0126" :> <<"U+0127">>) @@ ("U+0128" :>
    <<"U+0129">>))))) @@ (((("U+012A" :> <<"U+012B">>) @@ (("U+012C" :>
    <<"U+012D">>) @@ ("U+012E" :> <<"U+012F">>))) @@ (("U+0130" :> <<"i",
    "U+0307">>) @@ (("U+0132" :> <<"U+0133">>) @@ ("U+0134" :>
    <<"U+0135">>)))) @@ ((("U+0136" :> <<"U+0137">>) @@ (("U+0139" :>
    <<"U+013A">>) @@ ("U+013B" :> <<"U+013C">>))) @@ (("U+013D" :>
    <<"U+013E">>) @@ (("U+013F" :> <<"U+0140">>) @@ ("U+0141" :>
    <<"U+0142">>)))))))) @@ ((((((("U+0143" :> <<"U+0144">>) @@ ("U+0145" :>
    <<"U+0146">>)) @@ (("U+0147" :> <<"U+0148">>) @@ (("U+014A" :>
    <<"U+014B">>) @@ ("U+014C" :> <<"U+014D">>)))) @@ ((("U+014E" :>
    <<"U+014F">>) @@ (("U+0150" :> <<"U+0151">>) @@ ("U+0152" :>
    <<"U+0153">>))) @@ (("U+0154" :> <<"U+0155">>) @@ (("U+0156" :>
    <<"U+0157">>) @@ ("U+0158" :> <<"U+0159">>))))) @@ (((("U+015A" :>
    <<"U+015B">>) @@ ("U+015C" :> <<"U+015D">>)) @@ (("U+015E" :>
    <<"U+015F">>) @@ (("U+0160" :> <<"U+0161">>) @@ ("U+0162" :>
    <<"U+0163">>)))) @@ ((("U+0164" :> <<"U+0165">>) @@ (("U+0166" :>
    <<"U+0167">>) @@ ("U+0168" :> <<"U+0169">>))) @@ (("U+016A" :>
    <<"U+016B">>) @@ (("U+016C" :> <<"U+016D">>) @@ ("U+016E" :>
    <<"U+016F">>)))))) @@ ((((("U+0170" :> <<"U+0171">>) @@ ("U+0172" :>
    <<"U+0173">>)) @@ (("U+0174" :> <<"U+0175">>) @@ (("U+0176" :>
    <<"U+0177">>) @@ ("U+0178" :> <<"ÿ">>)))) @@ ((("U+0179" :> <<"U+017A">>)
    @@ (("U+017B" :> <<"U+017C">>) @@ ("U+017D" :> <<"U+017E">>))) @@
    (("U+0181" :> <<"U+0253">>) @@ (("U+0182" :> <<"U+0183">>) @@ ("U+0184"
    :> <<"U+0185">>))))) @@ (((("U+0186" :> <<"U+0254">>) @@ (("U+0187" :>
    <<"U+0188">>) @@ ("U+0189" :> <<"U+0256">>))) @@ (("U+018A" :>
    <<"U+0257">>) @@ (("U+018B" :> <<"U+018C">>) @@ ("U+018E" :>
    <<"U+01DD">>)))) @@ ((("U+018F" :> <<"U+0259">>) @@ (("U+0190" :>
    <<"U+025B">>) @@ ("U+0191" :> <<"U+0192">>))) @@ (("U+0193" :>
    <<"U+0260">>) @@ (("U+0194" :> <<"U+0263">>) @@ ("U+0196" :>
    <<"U+0269">>))))))) @@ (((((("U+0197" :> <<"U+0268">>) @@ ("U+0198" :>
    <<"U+0199">>)) @@ (("U+019C" :> <<"U+026F">>) @@ (("U+019D" :>
    <<"U+0272">>) @@ ("U+019F" :> <<"U+0275">>)))) @@ ((("U+01A0" :>
    <<"U+01A1">>) @@ (("U+01A2" :> <<"U+01A3">>) @@ ("U+01A4" :>
    <<"U+01A5">>))) @@ (("U+01A6" :> <<"U+0280">>) @@ (("U+01A7" :>
    <<"U+01A8">>) @@ ("U+01A9" :> <<"U+0283">>))))) @@ (((("U+01AC" :>
    <<"U+01AD">>) @@ ("U+01AE" :> <<"U+0288">>)) @@ (("U+01AF" :>
    <<"U+01B0">>) @@ (("U+01B1" :> <<"U+028A">>) @@ ("U+01B2" :>
    <<"U+028B">>)))) @@ ((("U+01B3" :> <<"U+01B4">>) @@ (("U+01B5" :>
    <<"U+01B6">>) @@ ("U+01B7" :> <<"U+0292">>))) @@ (("U+01B8" :>
    <<"U+01B9">>) @@ (("U+01BC" :> <<"U+01BD">>) @@ ("U+01C4" :>
    <<"U+01C6">>)))))) @@ ((((("U+01C5" :> <<"U+01C6">>) @@ ("U+01C7" :>
    <<"U+01C9">>)) @@ (("U+01C8" :> <<"U+01C9">>) @@ (("U+01CA" :>
    <<"U+01CC">>) @@ ("U+01CB" :> <<"U+01CC">>)))) @@ ((("U+01CD" :>
    <<"U+01CE">>) @@ (("U+01CF" :> <<"U+01D0">>) @@ ("U+01D1" :>
    <<"U+01D2">>))) @@ (("U+01D3" :> <<"U+01D4">>) @@ (("U+01D5" :>
    <<"U+01D6">>) @@ ("U+01D7" :> <<"U+01D8">>))))) @@ (((("U+01D9" :>
    <<"U+01DA">>) @@ (("U+01DB" :> <<"U+01DC">>) @@ ("U+01DE" :>
    <<"U+01DF">>))) @@ (("U+01E0" :> <<"U+01E1">>) @@ (("U+01E2" :>
    <<"U+01E3">>) @@ ("U+01E4" :> <<"U+01E5">>)))) @@ ((("U+01E6" :>
    <<"U+01E7">>) @@ (("U+01E8" :> <<"U+01E9">>) @@ ("U+01EA" :>
    <<"U+01EB">>))) @@ (("U+01EC" :> <<"U+01ED">>) @@ (("U+01EE" :>
    <<"U+01EF">>) @@ ("U+01F1" :> <<"U+01F3">>))))))))) @@ (((((((("U+01F2"
    :> <<"U+01F3">>) @@ ("U+01F4" :> <<"U+01F5">>)) @@ (("U+01F6" :>
    <<"U+0195">>) @@ (("U+01F7" :> <<"U+01BF">>) @@ ("U+01F8" :>
    <<"U+01F9">>)))) @@ ((("U+01FA" :> <<"U+01FB">>) @@ (("U+01FC" :>
    <<"U+01FD">>) @@ ("U+01FE" :> <<"U+01FF">>))) @@ (("U+0200" :>
    <<"U+0201">>) @@ (("U+0202" :> <<"U+0203">>) @@ ("U+0204" :>
    <<"U+0205">>))))) @@ (((("U+0206" :> <<"U+0207">>) @@ ("U+0208" :>
    <<"U+0209">>)) @@ (("U+020A" :> <<"U+020B">>) @@ (("U+020C" :>
    <<"U+020D">>) @@ ("U+020E" :> <<"U+020F">>)))) @@ ((("U+0210" :>
    <<"U+0211">>) @@ (("U+0212" :> <<"U+0213">>) @@ ("U+0214" :>
    <<"U+0215">>))) @@ (("U+0216" :> <<"U+0217">>) @@ (("U+0218" :>
    <<"U+0219">>) @@ ("U+021A" :> <<"U+021B">>)))))) @@ ((((("U+021C" :>
    <<"U+021D">>) @@ ("U+021E" :> <<"U+021F">>)) @@ (("U+0220" :>
    <<"U+019E">>) @@ (("U+0222" :> <<"U+0223">>) @@ ("U+0224" :>
    <<"U+0225">>)))) @@ ((("U+0226" :> <<"U+0227">>) @@ (("U+0228" :>
    <<"U+0229">>) @@ ("U+022A" :> <<"U+022B">>))) @@ (("U+022C" :>
    <<"U+022D">>) @@ (("U+022E" :> <<"U+022F">>) @@ ("U+0230" :>
    <<"U+0231">>))))) @@ (((("U+0232" :> <<"U+0233">>) @@ ("U+023A" :>
    <<"U+2C65">>)) @@ (("U+023B" :> <<"U+023C">>) @@ (("U+023D" :>
    <<"U+019A">>) @@ ("U+023E" :> <<"U+2C66">>)))) @@ ((("U+0241" :>
    <<"U+0242">>) @@ (("U+0243" :> <<"U+0180">>) @@ ("U+0244" :>
    <<"U+0289">>))) @@ (("U+0245" :> <<"U+028C">>) @@ (("U+0246" :>
    <<"U+0247">>) @@ ("U+0248" :> <<"U+0249">>))))))) @@ (((((("U+024A" :>
    <<"U+024B">>) @@ ("U+024C" :> <<"U+024D">>)) @@ (("U+024E" :>
    <<"U+024F">>) @@ (("U+0370" :> <<"U+0371">>) @@ ("U+0372" :>
    <<"U+0373">>)))) @@ ((("U+0376" :> <<"U+0377">>) @@ (("U+037F" :>
    <<"U+03F3">>) @@ ("U+0386" :> <<"U+03AC">>))) @@ (("U+0388" :>
    <<"U+03AD">>) @@ (("U+0389" :> <<"U+03AE">>) @@ ("U+038A" :>
    <<"U+03AF">>))))) @@ (((("U+038C" :> <<"U+03CC">>) @@ ("U+038E" :>
    <<"U+03CD">>)) @@ (("U+038F" :> <<"U+03CE">>) @@ (("U+0391" :>
    <<"U+03B1">>) @@ ("U+0392" :> <<"U+03B2">>)))) @@ ((("U+0393" :>
    <<"U+03B3">>) @@ (("U+0394" :> <<"U+03B4">>) @@ ("U+0395" :>
    <<"U+03B5">>))) @@ (("U+0396" :> <<"U+03B6">>) @@ (("U+0397" :>
    <<"U+03B7">>) @@ ("U+0398" :> <<"U+03B8">>)))))) @@ ((((("U+0399" :>
    <<"U+03B9">>) @@ ("U+039A" :> <<"U+03BA">>)) @@ (("U+039B" :>
    <<"U+03BB">>) @@ (("U+039C" :> <<"U+03BC">>) @@ ("U+039D" :>
    <<"U+03BD">>)))) @@ ((("U+039E" :> <<"U+03BE">>) @@ (("U+039F" :>
    <<"U+03BF">>) @@ ("U+03A0" :> <<"U+03C0">>))) @@ (("U+03A1" :>
    <<"U+03C1">>) @@ (("U+03A3" :> <<"U+03C3">>) @@ ("U+03A4" :>
    <<"U+03C4">>))))) @@ (((("U+03A5" :> <<"U+03C5">>) @@ (("U+03A6" :>
    <<"U+03C6">>) @@ ("U+03A7" :> <<"U+03C7">>))) @@ (("U+03A8" :>
    <<"U+03C8">>) @@ (("U+03A9" :> <<"U+03C9">>) @@ ("U+03AA" :>
    <<"U+03CA">>)))) @@ ((("U+03AB" :> <<"U+03CB">>) @@ (("U+03CF" :>
    <<"U+03D7">>) @@ ("U+03D8" :> <<"U+03D9">>))) @@ (("U+03DA" :>
    <<"U+03DB">>) @@ (("U+03DC" :> <<"U+03DD">>) @@ ("U+03DE" :>
    <<"U+03DF">>)))))))) @@ ((((((("U+03E0" :> <<"U+03E1">>) @@ ("U+03E2" :>
    <<"U+03E3">>)) @@ (("U+03E4" :> <<"U+03E5">>) @@ (("U+03E6" :>
    <<"U+03E7">>) @@ ("U+03E8" :> <<"U+03E9">>)))) @@ ((("U+03EA" :>
    <<"U+03EB">>) @@ (("U+03EC" :> <<"U+03ED">>) @@ ("U+03EE" :>
    <<"U+03EF">>))) @@ (("U+03F4" :> <<"U+03B8">>) @@ (("U+03F7" :>
    <<"U+03F8">>) @@ ("U+03F9" :> <<"U+03F2">>))))) @@ (((("U+03FA" :>
    <<"U+03FB">>) @@ ("U+03FD" :> <<"U+037B">>)) @@ (("U+03FE" :>
    <<"U+037C">>) @@ (("U+03FF" :> <<"U+037D">>) @@ ("U+0400" :>
    <<"U+0450">>)))) @@ ((("U+0401" :> <<"U+0451">>) @@ (("U+0402" :>
    <<"U+0452">>) @@ ("U+0403" :> <<"U+0453">>))) @@ (("U+0404" :>
    <<"U+0454">>) @@ (("U+0405" :> <<"U+0455">>) @@ ("U+0406" :>
    <<"U+0456">>)))))) @@ ((((("U+0407" :> <<"U+0457">>) @@ ("U+0408" :>
    <<"U+0458">>)) @@ (("U+0409" :> <<"U+0459">>) @@ (("U+040A" :>
    <<"U+045A">>) @@ ("U+040B" :> <<"U+045B">>)))) @@ ((("U+040C" :>
    <<"U+045C">>) @@ (("U+040D" :> <<"U+045D">>) @@ ("U+040E" :>
    <<"U+045E">>))) @@ (("U+040F" :> <<"U+045F">>) @@ (("U+0410" :>
    <<"U+0430">>) @@ ("U+0411" :> <<"U+0431">>))))) @@ (((("U+0412" :>
    <<"U+0432">>) @@ (("U+0413" :> <<"U+0433">>) @@ ("U+0414" :>
    <<"U+0434">>))) @@ (("U+0415" :> <<"U+0435">>) @@ (("U+0416" :>
    <<"U+0436">>) @@ ("U+0417" :> <<"U+0437">>)))) @@ ((("U+0418" :>
    <<"U+0438">>) @@ (("U+0419" :> <<"U+0439">>) @@ ("U+041A" :>
    <<"U+043A">>))) @@ (("U+041B" :> <<"U+043B">>) @@ (("U+041C" :>
    <<"U+043C">>) @@ ("U+041D" :> <<"U+043D">>))))))) @@ (((((("U+041E" :>
    <<"U+043E">>) @@ ("U+041F" :> <<"U+043F">>)) @@ (("U+0420" :>
    <<"U+0440">>) @@ (("U+0421" :> <<"U+0441">>) @@ ("U+0422" :>
    <<"U+0442">>)))) @@ ((("U+0423" :> <<"U+0443">>) @@ (("U+0424" :>
    <<"U+0444">>) @@ ("U+0425" :> <<"U+0445">>))) @@ (("U+0426" :>
    <<"U+0446">>) @@ (("U+0427" :> <<"U+0447">>) @@ ("U+0428" :>
    <<"U+0448">>))))) @@ (((("U+0429" :> <<"U+0449">>) @@ ("U+042A" :>
    <<"U+044A">>)) @@ (("U+042B" :> <<"U+044B">>) @@ (("U+042C" :>
    <<"U+044C">>) @@ ("U+042D" :> <<"U+044D">>)))) @@ ((("U+042E" :>
    <<"U+044E">>) @@ (("U+042F" :> <<"U+044F">>) @@ ("U+0460" :>
    <<"U+0461">>))) @@ (("U+0462" :> <<"U+0463">>) @@ (("U+0464" :>
    <<"U+0465">>) @@ ("U+0466" :> <<"U+0467">>)))))) @@ ((((("U+0468" :>
    <<"U+0469">>) @@ ("U+046A" :> <<"U+046B">>)) @@ (("U+046C" :>
    <<"U+046D">>) @@ (("U+046E" :> <<"U+046F">>) @@ ("U+0470" :>
    <<"U+0471">>)))) @@ ((("U+0472" :> <<"U+0473">>) @@ (("U+0474" :>
    <<"U+0475">>) @@ ("U+0476" :> <<"U+0477">>))) @@ (("U+0478" :>
    <<"U+0479">>) @@ (("U+047A" :> <<"U+047B">>) @@ ("U+047C" :>
    <<"U+047D">>))))) @@ (((("U+047E" :> <<"U+047F">>) @@ (("U+0480" :>
    <<"U+0481">>) @@ ("U+048A" :> <<"U+048B">>))) @@ (("U+048C" :>
    <<"U+048D">>) @@ (("U+048E" :> <<"U+048F">>) @@ ("U+0490" :>
    <<"U+0491">>)))) @@ ((("U+0492" :> <<"U+0493">>) @@ (("U+0494" :>
    <<"U+0495">>) @@ ("U+0496" :> <<"U+0497">>))) @@ (("U+0498" :>
    <<"U+0499">>) @@ (("U+049A" :> <<"U+049B">>) @@ ("U+049C" :>
    <<"U+049D">>)))))))))) @@ ((((((((("U+049E" :> <<"U+049F">>) @@ ("U+04A0"
    :> <<"U+04A1">>)) @@ (("U+04A2" :> <<"U+04A3">>) @@ (("U+04A4" :>
    <<"U+04A5">>) @@ ("U+04A6" :> <<"U+04A7">>)))) @@ ((("U+04A8" :>
    <<"U+04A9">>) @@ (("U+04AA" :> <<"U+04AB">>) @@ ("U+04AC" :>
    <<"U+04AD">>))) @@ (("U+04AE" :> <<"U+04AF">>) @@ (("U+04B0" :>
    <<"U+04B1">>) @@ ("U+04B2" :> <<"U+04B3">>))))) @@ (((("U+04B4" :>
    <<"U+04B5">>) @@ ("U+04B6" :> <<"U+04B7">>)) @@ (("U+04B8" :>
    <<"U+04B9">>) @@ (("U+04BA" :> <<"U+04BB">>) @@ ("U+04BC" :>
    <<"U+04BD">>)))) @@ ((("U+04BE" :> <<"U+04BF">>) @@ (("U+04C0" :>
    <<"U+04CF">>) @@ ("U+04C1" :> <<"U+04C2">>))) @@ (("U+04C3" :>
    <<"U+04C4">>) @@ (("U+04C5" :> <<"U+04C6">>) @@ ("U+04C7" :>
    <<"U+04C8">>)))))) @@ ((((("U+04C9" :> <<"U+04CA">>) @@ ("U+04CB" :>
    <<"U+04CC">>)) @@ (("U+04CD" :> <<"U+04CE">>) @@ (("U+04D0" :>
    <<"U+04D1">>) @@ ("U+04D2" :> <<"U+04D3">>)))) @@ ((("U+04D4" :>
    <<"U+04D5">>) @@ (("U+04D6" :> <<"U+04D7">>) @@ ("U+04D8" :>
    <<"U+04D9">>))) @@ (("U+04DA" :> <<"U+04DB">>) @@ (("U+04DC" :>
    <<"U+04DD">>) @@ ("U+04DE" :> <<"U+04DF">>))))) @@ (((("U+04E0" :>
    <<"U+04E1">>) @@ ("U+04E2" :> <<"U+04E3">>)) @@ (("U+04E4" :>
    <<"U+04E5">>) @@ (("U+04E6" :> <<"U+04E7">>) @@ ("U+04E8" :>
    <<"U+04E9">>)))) @@ ((("U+04EA" :> <<"U+04EB">>) @@ (("U+04EC" :>
    <<"U+04ED">>) @@ ("U+04EE" :> <<"U+04EF">>))) @@ (("U+04F0" :>
    <<"U+04F1">>) @@ (("U+04F2" :> <<"U+04F3">>) @@ ("U+04F4" :>
    <<"U+04F5">>))))))) @@ (((((("U+04F6" :> <<"U+04F7">>) @@ ("U+04F8" :>
    <<"U+04F9">>)) @@ (("U+04FA" :> <<"U+04FB">>) @@ (("U+04FC" :>
    <<"U+04FD">>) @@ ("U+04FE" :> <<"U+04FF">>)))) @@ ((("U+0500" :>
    <<"U+0501">>) @@ (("U+0502" :> <<"U+0503">>) @@ ("U+0504" :>
    <<"U+0505">>))) @@ (("U+0506" :> <<"U+0507">>) @@ (("U+0508" :>
    <<"U+0509">>) @@ ("U+050A" :> <<"U+050B">>))))) @@ (((("U+050C" :>
    <<"U+050D">>) @@ ("U+050E" :> <<"U+050F">>)) @@ (("U+0510" :>
    <<"U+0511">>) @@ (("U+0512" :> <<"U+0513">>) @@ ("U+0514" :>
    <<"U+0515">>)))) @@ ((("U+0516" :> <<"U+0517">>) @@ (("U+0518" :>
    <<"U+0519">>) @@ ("U+051A" :> <<"U+051B">>))) @@ (("U+051C" :>
    <<"U+051D">>) @@ (("U+051E" :> <<"U+051F">>) @@ ("U+0520" :>
    <<"U+0521">>)))))) @@ ((((("U+0522" :> <<"U+0523">>) @@ ("U+0524" :>
    <<"U+0525">>)) @@ (("U+0526" :> <<"U+0527">>) @@ (("U+0528" :>
    <<"U+0529">>) @@ ("U+052A" :> <<"U+052B">>)))) @@ ((("U+052C" :>
    <<"U+052D">>) @@ (("U+052E" :> <<"U+052F">>) @@ ("U+0531" :>
    <<"U+0561">>))) @@ (("U+0532" :> <<"U+0562">>) @@ (("U+0533" :>
    <<"U+0563">>) @@ ("U+0534" :> <<"U+0564">>))))) @@ (((("U+0535" :>
    <<"U+0565">>) @@ (("U+0536" :> <<"U+0566">>) @@ ("U+0537" :>
    <<"U+0567">>))) @@ (("U+0538" :> <<"U+0568">>) @@ (("U+0539" :>
    <<"U+0569">>) @@ ("U+053A" :> <<"U+056A">>)))) @@ ((("U+053B" :>
    <<"U+056B">>) @@ (("U+053C" :> <<"U+056C">>) @@ ("U+053D" :>
    <<"U+056D">>))) @@ (("U+053E" :> <<"U+056E">>) @@ (("U+053F" :>
    <<"U+056F">>) @@ ("U+0540" :> <<"U+0570">>)))))))) @@ ((((((("U+0541" :>
    <<"U+0571">>) @@ ("U+0542" :> <<"U+0572">>)) @@ (("U+0543" :>
    <<"U+0573">>) @@ (("U+0544" :> <<"U+0574">>) @@ ("U+0545" :>
    <<"U+0575">>)))) @@ ((("U+0546" :> <<"U+0576">>) @@ (("U+0547" :>
    <<"U+0577">>) @@ ("U+0548" :> <<"U+0578">>))) @@ (("U+0549" :>
    <<"U+0579">>) @@ (("U+054A" :> <<"U+057A">>) @@ ("U+054B" :>
    <<"U+057B">>))))) @@ (((("U+054C" :> <<"U+057C">>) @@ ("U+054D" :>
    <<"U+057D">>)) @@ (("U+054E" :> <<"U+057E">>) @@ (("U+054F" :>
    <<"U+057F">>) @@ ("U+0550" :> <<"U+0580">>)))) @@ ((("U+0551" :>
    <<"U+0581">>) @@ (("U+0552" :> <<"U+0582">>) @@ ("U+0553" :>
    <<"U+0583">>))) @@ (("U+0554" :> <<"U+0584">>) @@ (("U+0555" :>
    <<"U+0585">>) @@ ("U+0556" :> <<"U+0586">>)))))) @@ ((((("U+10A0" :>
    <<"U+2D00">>) @@ ("U+10A1" :> <<"U+2D01">>)) @@ (("U+10A2" :>
    <<"U+2D02">>) @@ (("U+10A3" :> <<"U+2D03">>) @@ ("U+10A4" :>
    <<"U+2D04">>)))) @@ ((("U+10A5" :> <<"U+2D05">>) @@ (("U+10A6" :>
    <<"U+2D06">>) @@ ("U+10A7" :> <<"U+2D07">>))) @@ (("U+10A8" :>
    <<"U+2D08">>) @@ (("U+10A9" :> <<"U+2D09">>) @@ ("U+10AA" :>
    <<"U+2D0A">>))))) @@ (((("U+10AB" :> <<"U+2D0B">>) @@ (("U+10AC" :>
    <<"U+2D0C">>) @@ ("U+10AD" :> <<"U+2D0D">>))) @@ (("U+10AE" :>
    <<"U+2D0E">>) @@ (("U+10AF" :> <<"U+2D0F">>) @@ ("U+10B0" :>
    <<"U+2D10">>)))) @@ ((("U+10B1" :> <<"U+2D11">>) @@ (("U+10B2" :>
    <<"U+2D12">>) @@ ("U+10B3" :> <<"U+2D13">>))) @@ (("U+10B4" :>
    <<"U+2D14">>) @@ (("U+10B5" :> <<"U+2D15">>) @@ ("U+10B6" :>
    <<"U+2D16">>))))))) @@ (((((("U+10B7" :> <<"U+2D17">>) @@ ("U+10B8" :>
    <<"U+2D18">>)) @@ (("U+10B9" :> <<"U+2D19">>) @@ (("U+10BA" :>
    <<"U+2D1A">>) @@ ("U+10BB" :> <<"U+2D1B">>)))) @@ ((("U+10BC" :>
    <<"U+2D1C">>) @@ (("U+10BD" :> <<"U+2D1D">>) @@ ("U+10BE" :>
    <<"U+2D1E">>))) @@ (("U+10BF" :> <<"U+2D1F">>) @@ (("U+10C0" :>
    <<"U+2D20">>) @@ ("U+10C1" :> <<"U+2D21">>))))) @@ (((("U+10C2" :>
    <<"U+2D22">>) @@ ("U+10C3" :> <<"U+2D23">>)) @@ (("U+10C4" :>
    <<"U+2D24">>) @@ (("U+10C5" :> <<"U+2D25">>) @@ ("U+10C7" :>
    <<"U+2D27">>)))) @@ ((("U+10CD" :> <<"U+2D2D">>) @@ (("U+13A0" :>
    <<"U+AB70">>) @@ ("U+13A1" :> <<"U+AB71">>))) @@ (("U+13A2" :>
    <<"U+AB72">>) @@ (("U+13A3" :> <<"U+AB73">>) @@ ("U+13A4" :>
    <<"U+AB74">>)))))) @@ ((((("U+13A5" :> <<"U+AB75">>) @@ ("U+13A6" :>
    <<"U+AB76">>)) @@ (("U+13A7" :> <<"U+AB77">>) @@ (("U+13A8" :>
    <<"U+AB78">>) @@ ("U+13A9" :> <<"U+AB79">>)))) @@ ((("U+13AA" :>
    <<"U+AB7A">>) @@ (("U+13AB" :> <<"U+AB7B">>) @@ ("U+13AC" :>
    <<"U+AB7C">>))) @@ (("U+13AD" :> <<"U+AB7D">>) @@ (("U+13AE" :>
    <<"U+AB7E">>) @@ ("U+13AF" :> <<"U+AB7F">>))))) @@ (((("U+13B0" :>
    <<"U+AB80">>) @@ (("U+13B1" :> <<"U+AB81">>) @@ ("U+13B2" :>
    <<"U+AB82">>))) @@ (("U+13B3" :> <<"U+AB83">>) @@ (("U+13B4" :>
    <<"U+AB84">>) @@ ("U+13B5" :> <<"U+AB85">>)))) @@ ((("U+13B6" :>
    <<"U+AB86">>) @@ (("U+13B7" :> <<"U+AB87">>) @@ ("U+13B8" :>
    <<"U+AB88">>))) @@ (("U+13B9" :> <<"U+AB89">>) @@ (("U+13BA" :>
    <<"U+AB8A">>) @@ ("U+13BB" :> <<"U+AB8B">>))))))))) @@ (((((((("U+13BC"
    :> <<"U+AB8C">>) @@ ("U+13BD" :> <<"U+AB8D">>)) @@ (("U+13BE" :>
    <<"U+AB8E">>) @@ (("U+13BF" :> <<"U+AB8F">>) @@ ("U+13C0" :>
    <<"U+AB90">>)))) @@ ((("U+13C1" :> <<"U+AB91">>) @@ (("U+13C2" :>
    <<"U+AB92">>) @@ ("U+13C3" :> <<"U+AB93">>))) @@ (("U+13C4" :>
    <<"U+AB94">>) @@ (("U+13C5" :> <<"U+AB95">>) @@ ("U+13C6" :>
    <<"U+AB96">>))))) @@ (((("U+13C7" :> <<"U+AB97">>) @@ ("U+13C8" :>
    <<"U+AB98">>)) @@ (("U+13C9" :> <<"U+AB99">>) @@ (("U+13CA" :>
    <<"U+AB9A">>) @@ ("U+13CB" :> <<"U+AB9B">>)))) @@ ((("U+13CC" :>
    <<"U+AB9C">>) @@ (("U+13CD" :> <<"U+AB9D">>) @@ ("U+13CE" :>
    <<"U+AB9E">>))) @@ (("U+13CF" :> <<"U+AB9F">>) @@ (("U+13D0" :>
    <<"U+ABA0">>) @@ ("U+13D1" :> <<"U+ABA1">>)))))) @@ ((((("U+13D2" :>
    <<"U+ABA2">>) @@ ("U+13D3" :> <<"U+ABA3">>)) @@ (("U+13D4" :>
    <<"U+ABA4">>) @@ (("U+13D5" :> <<"U+ABA5">>) @@ ("U+13D6" :>
    <<"U+ABA6">>)))) @@ ((("U+13D7" :> <<"U+ABA7">>) @@ (("U+13D8" :>
    <<"U+ABA8">>) @@ ("U+13D9" :> <<"U+ABA9">>))) @@ (("U+13DA" :>
    <<"U+ABAA">>) @@ (("U+13DB" :> <<"U+ABAB">>) @@ ("U+13DC" :>
    <<"U+ABAC">>))))) @@ (((("U+13DD" :> <<"U+ABAD">>) @@ ("U+13DE" :>
    <<"U+ABAE">>)) @@ (("U+13DF" :> <<"U+ABAF">>) @@ (("U+13E0" :>
    <<"U+ABB0">>) @@ ("U+13E1" :> <<"U+ABB1">>)))) @@ ((("U+13E2" :>
    <<"U+ABB2">>) @@ (("U+13E3" :> <<"U+ABB3">>) @@ ("U+13E4" :>
    <<"U+ABB4">>))) @@ (("U+13E5" :> <<"U+ABB5">>) @@ (("U+13E6" :>
    <<"U+ABB6">>) @@ ("U+13E7" :> <<"U+ABB7">>))))))) @@ (((((("U+13E8" :>
    <<"U+ABB8">>) @@ ("U+13E9" :> <<"U+ABB9">>)) @@ (("U+13EA" :>
    <<"U+ABBA">>) @@ (("U+13EB" :> <<"U+ABBB">>) @@ ("U+13EC" :>
    <<"U+ABBC">>)))) @@ ((("U+13ED" :> <<"U+ABBD">>) @@ (("U+13EE" :>
    <<"U+ABBE">>) @@ ("U+13EF" :> <<"U+ABBF">>))) @@ (("U+13F0" :>
    <<"U+13F8">>) @@ (("U+13F1" :> <<"U+13F9">>) @@ ("U+13F2" :>
    <<"U+13FA">>))))) @@ (((("U+13F3" :> <<"U+13FB">>) @@ ("U+13F4" :>
    <<"U+13FC">>)) @@ (("U+13F5" :> <<"U+13FD">>) @@ (("U+1C90" :>
    <<"U+10D0">>) @@ ("U+1C91" :> <<"U+10D1">>)))) @@ ((("U+1C92" :>
    <<"U+10D2">>) @@ (("U+1C93" :> <<"U+10D3">>) @@ ("U+1C94" :>
    <<"U+10D4">>))) @@ (("U+1C95" :> <<"U+10D5">>) @@ (("U+1C96" :>
    <<"U+10D6">>) @@ ("U+1C97" :> <<"U+10D7">>)))))) @@ ((((("U+1C98" :>
    <<"U+10D8">>) @@ ("U+1C99" :> <<"U+10D9">>)) @@ (("U+1C9A" :>
    <<"U+10DA">>) @@ (("U+1C9B" :> <<"U+10DB">>) @@ ("U+1C9C" :>
    <<"U+10DC">>)))) @@ ((("U+1C9D" :> <<"U+10DD">>) @@ (("U+1C9E" :>
    <<"U+10DE">>) @@ ("U+1C9F" :> <<"U+10DF">>))) @@ (("U+1CA0" :>
    <<"U+10E0">>) @@ (("U+1CA1" :> <<"U+10E1">>) @@ ("U+1CA2" :>
    <<"U+10E2">>))))) @@ (((("U+1CA3" :> <<"U+10E3">>) @@ (("U+1CA4" :>
    <<"U+10E4">>) @@ ("U+1CA5" :> <<"U+10E5">>))) @@ (("U+1CA6" :>
    <<"U+10E6">>) @@ (("U+1CA7" :> <<"U+10E7">>) @@ ("U+1CA8" :>
    <<"U+10E8">>)))) @@ ((("U+1CA9" :> <<"U+10E9">>) @@ (("U+1CAA" :>
    <<"U+10EA">>) @@ ("U+1CAB" :> <<"U+10EB">>))) @@ (("U+1CAC" :>
    <<"U+10EC">>) @@ (("U+1CAD" :> <<"U+10ED">>) @@ ("U+1CAE" :>
    <<"U+10EE">>)))))))) @@ ((((((("U+1CAF" :> <<"U+10EF">>) @@ ("U+1CB0" :>
    <<"U+10F0">>)) @@ (("U+1CB1" :> <<"U+10F1">>) @@ (("U+1CB2" :>
    <<"U+10F2">>) @@ ("U+1CB3" :> <<"U+10F3">>)))) @@ ((("U+1CB4" :>
    <<"U+10F4">>) @@ (("U+1CB5" :> <<"U+10F5">>) @@ ("U+1CB6" :>
    <<"U+10F6">>))) @@ (("U+1CB7" :> <<"U+10F7">>) @@ (("U+1CB8" :>
    <<"U+10F8">>) @@ ("U+1CB9" :> <<"U+10F9">>))))) @@ (((("U+1CBA" :>
    <<"U+10FA">>) @@ ("U+1CBD" :> <<"U+10FD">>)) @@ (("U+1CBE" :>
    <<"U+10FE">>) @@ (("U+1CBF" :> <<"U+10FF">>) @@ ("U+1E00" :>
    <<"U+1E01">>)))) @@ ((("U+1E02" :> <<"U+1E03">>) @@ (("U+1E04" :>
    <<"U+1E05">>) @@ ("U+1E06" :> <<"U+1E07">>))) @@ (("U+1E08" :>
    <<"U+1E09">>) @@ (("U+1E0A" :> <<"U+1E0B">>) @@ ("U+1E0C" :>
    <<"U+1E0D">>)))))) @@ ((((("U+1E0E" :> <<"U+1E0F">>) @@ ("U+1E10" :>
    <<"U+1E11">>)) @@ (("U+1E12" :> <<"U+1E13">>) @@ (("U+1E14" :>
    <<"U+1E15">>) @@ ("U+1E16" :> <<"U+1E17">>)))) @@ ((("U+1E18" :>
    <<"U+1E19">>) @@ (("U+1E1A" :> <<"U+1E1B">>) @@ ("U+1E1C" :>
    <<"U+1E1D">>))) @@ (("U+1E1E" :> <<"U+1E1F">>) @@ (("U+1E20" :>
    <<"U+1E21">>) @@ ("U+1E22" :> <<"U+1E23">>))))) @@ (((("U+1E24" :>
    <<"U+1E25">>) @@ (("U+1E26" :> <<"U+1E27">>) @@ ("U+1E28" :>
    <<"U+1E29">>))) @@ (("U+1E2A" :> <<"U+1E2B">>) @@ (("U+1E2C" :>
    <<"U+1E2D">>) @@ ("U+1E2E" :> <<"U+1E2F">>)))) @@ ((("U+1E30" :>
    <<"U+1E31">>) @@ (("U+1E32" :> <<"U+1E33">>) @@ ("U+1E34" :>
    <<"U+1E35">>))) @@ (("U+1E36" :> <<"U+1E37">>) @@ (("U+1E38" :>
    <<"U+1E39">>) @@ ("U+1E3A" :> <<"U+1E3B">>))))))) @@ (((((("U+1E3C" :>
    <<"U+1E3D">>) @@ ("U+1E3E" :> <<"U+1E3F">>)) @@ (("U+1E40" :>
    <<"U+1E41">>) @@ (("U+1E42" :> <<"U+1E43">>) @@ ("U+1E44" :>
    <<"U+1E45">>)))) @@ ((("U+1E46" :> <<"U+1E47">>) @@ (("U+1E48" :>
    <<"U+1E49">>) @@ ("U+1E4A" :> <<"U+1E4B">>))) @@ (("U+1E4C" :>
    <<"U+1E4D">>) @@ (("U+1E4E" :> <<"U+1E4F">>) @@ ("U+1E50" :>
    <<"U+1E51">>))))) @@ (((("U+1E52" :> <<"U+1E53">>) @@ ("U+1E54" :>
    <<"U+1E55">>)) @@ (("U+1E56" :> <<"U+1E57">>) @@ (("U+1E58" :>
    <<"U+1E59">>) @@ ("U+1E5A" :> <<"U+1E5B">>)))) @@ ((("U+1E5C" :>
    <<"U+1E5D">>) @@ (("U+1E5E" :> <<"U+1E5F">>) @@ ("U+1E60" :>
    <<"U+1E61">>))) @@ (("U+1E62" :> <<"U+1E63">>) @@ (("U+1E64" :>
    <<"U+1E65">>) @@ ("U+1E66" :> <<"U+1E67">>)))))) @@ ((((("U+1E68" :>
    <<"U+1E69">>) @@ ("U+1E6A" :> <<"U+1E6B">>)) @@ (("U+1E6C" :>
    <<"U+1E6D">>) @@ (("U+1E6E" :> <<"U+1E6F">>) @@ ("U+1E70" :>
    <<"U+1E71">>)))) @@ ((("U+1E72" :> <<"U+1E73">>) @@ (("U+1E74" :>
    <<"U+1E75">>) @@ ("U+1E76" :> <<"U+1E77">>))) @@ (("U+1E78" :>
    <<"U+1E79">>) @@ (("U+1E7A" :> <<"U+1E7B">>) @@ ("U+1E7C" :>
    <<"U+1E7D">>))))) @@ (((("U+1E7E" :> <<"U+1E7F">>) @@ (("U+1E80" :>
    <<"U+1E81">>) @@ ("U+1E82" :> <<"U+1E83">>))) @@ (("U+1E84" :>
    <<"U+1E85">>) @@ (("U+1E86" :> <<"U+1E87">>) @@ ("U+1E88" :>
    <<"U+1E89">>)))) @@ ((("U+1E8A" :> <<"U+1E8B">>) @@ (("U+1E8C" :>
    <<"U+1E8D">>) @@ ("U+1E8E" :> <<"U+1E8F">>))) @@ (("U+1E90" :>
    <<"U+1E91">>) @@ (("U+1E92" :> <<"U+1E93">>) @@ ("U+1E94" :>
    <<"U+1E95">>))))))))))) @@ (((((((((("U+1E9E" :> <<"ß">>) @@ ("U+1EA0" :>
    <<"U+1EA1">>)) @@ (("U+1EA2" :> <<"U+1EA3">>) @@ (("U+1EA4" :>
    <<"U+1EA5">>) @@ ("U+1EA6" :> <<"U+1EA7">>)))) @@ ((("U+1EA8" :>
    <<"U+1EA9">>) @@ (("U+1EAA" :> <<"U+1EAB">>) @@ ("U+1EAC" :>
    <<"U+1EAD">>))) @@ (("U+1EAE" :> <<"U+1EAF">>) @@ (("U+1EB0" :>
    <<"U+1EB1">>) @@ ("U+1EB2" :> <<"U+1EB3">>))))) @@ (((("U+1EB4" :>
    <<"U+1EB5">>) @@ ("U+1EB6" :> <<"U+1EB7">>)) @@ (("U+1EB8" :>
    <<"U+1EB9">>) @@ (("U+1EBA" :> <<"U+1EBB">>) @@ ("U+1EBC" :>
    <<"U+1EBD">>)))) @@ ((("U+1EBE" :> <<"U+1EBF">>) @@ (("U+1EC0" :>
    <<"U+1EC1">>) @@ ("U+1EC2" :> <<"U+1EC3">>))) @@ (("U+1EC4" :>
    <<"U+1EC5">>) @@ (("U+1EC6" :> <<"U+1EC7">>) @@ ("U+1EC8" :>
    <<"U+1EC9">>)))))) @@ ((((("U+1ECA" :> <<"U+1ECB">>) @@ ("U+1ECC" :>
    <<"U+1ECD">>)) @@ (("U+1ECE" :> <<"U+1ECF">>) @@ (("U+1ED0" :>
    <<"U+1ED1">>) @@ ("U+1ED2" :> <<"U+1ED3">>)))) @@ ((("U+1ED4" :>
    <<"U+1ED5">>) @@ (("U+1ED6" :> <<"U+1ED7">>) @@ ("U+1ED8" :>
    <<"U+1ED9">>))) @@ (("U+1EDA" :> <<"U+1EDB">>) @@ (("U+1EDC" :>
    <<"U+1EDD">>) @@ ("U+1EDE" :> <<"U+1EDF">>))))) @@ (((("U+1EE0" :>
    <<"U+1EE1">>) @@ ("U+1EE2" :> <<"U+1EE3">>)) @@ (("U+1EE4" :>
    <<"U+1EE5">>) @@ (("U+1EE6" :> <<"U+1EE7">>) @@ ("U+1EE8" :>
    <<"U+1EE9">>)))) @@ ((("U+1EEA" :> <<"U+1EEB">>) @@ (("U+1EEC" :>
    <<"U+1EED">>) @@ ("U+1EEE" :> <<"U+1EEF">>))) @@ (("U+1EF0" :>
    <<"U+1EF1">>) @@ (("U+1EF2" :> <<"U+1EF3">>) @@ ("U+1EF4" :>
    <<"U+1EF5">>))))))) @@ (((((("U+1EF6" :> <<"U+1EF7">>) @@ ("U+1EF8" :>
    <<"U+1EF9">>)) @@ (("U+1EFA" :> <<"U+1EFB">>) @@ (("U+1EFC" :>
    <<"U+1EFD">>) @@ ("U+1EFE" :> <<"U+1EFF">>)))) @@ ((("U+1F08" :>
    <<"U+1F00">>) @@ (("U+1F09" :> <<"U+1F01">>) @@ ("U+1F0A" :>
    <<"U+1F02">>))) @@ (("U+1F0B" :> <<"U+1F03">>) @@ (("U+1F0C" :>
    <<"U+1F04">>) @@ ("U+1F0D" :> <<"U+1F05">>))))) @@ (((("U+1F0E" :>
    <<"U+1F06">>) @@ ("U+1F0F" :> <<"U+1F07">>)) @@ (("U+1F18" :>
    <<"U+1F10">>) @@ (("U+1F19" :> <<"U+1F11">>) @@ ("U+1F1A" :>
    <<"U+1F12">>)))) @@ ((("U+1F1B" :> <<"U+1F13">>) @@ (("U+1F1C" :>
    <<"U+1F14">>) @@ ("U+1F1D" :> <<"U+1F15">>))) @@ (("U+1F28" :>
    <<"U+1F20">>) @@ (("U+1F29" :> <<"U+1F21">>) @@ ("U+1F2A" :>
    <<"U+1F22">>)))))) @@ ((((("U+1F2B" :> <<"U+1F23">>) @@ ("U+1F2C" :>
    <<"U+1F24">>)) @@ (("U+1F2D" :> <<"U+1F25">>) @@ (("U+1F2E" :>
    <<"U+1F26">>) @@ ("U+1F2F" :> <<"U+1F27">>)))) @@ ((("U+1F38" :>
    <<"U+1F30">>) @@ (("U+1F39" :> <<"U+1F31">>) @@ ("U+1F3A" :>
    <<"U+1F32">>))) @@ (("U+1F3B" :> <<"U+1F33">>) @@ (("U+1F3C" :>
    <<"U+1F34">>) @@ ("U+1F3D" :> <<"U+1F35">>))))) @@ (((("U+1F3E" :>
    <<"U+1F36">>) @@ (("U+1F3F" :> <<"U+1F37">>) @@ ("U+1F48" :>
    <<"U+1F40">>))) @@ (("U+1F49" :> <<"U+1F41">>) @@ (("U+1F4A" :>
    <<"U+1F42">>) @@ ("U+1F4B" :> <<"U+1F43">>)))) @@ ((("U+1F4C" :>
    <<"U+1F44">>) @@ (("U+1F4D" :> <<"U+1F45">>) @@ ("U+1F59" :>
    <<"U+1F51">>))) @@ (("U+1F5B" :> <<"U+1F53">>) @@ (("U+1F5D" :>
    <<"U+1F55">>) @@ ("U+1F5F" :> <<"U+1F57">>)))))))) @@ ((((((("U+1F68" :>
    <<"U+1F60">>) @@ ("U+1F69" :> <<"U+1F61">>)) @@ (("U+1F6A" :>
    <<"U+1F62">>) @@ (("U+1F6B" :> <<"U+1F63">>) @@ ("U+1F6C" :>
    <<"U+1F64">>)))) @@ ((("U+1F6D" :> <<"U+1F65">>) @@ (("U+1F6E" :>
    <<"U+1F66">>) @@ ("U+1F6F" :> <<"U+1F67">>))) @@ (("U+1F88" :>
    <<"U+1F80">>) @@ (("U+1F89" :> <<"U+1F81">>) @@ ("U+1F8A" :>
    <<"U+1F82">>))))) @@ (((("U+1F8B" :> <<"U+1F83">>) @@ ("U+1F8C" :>
    <<"U+1F84">>)) @@ (("U+1F8D" :> <<"U+1F85">>) @@ (("U+1F8E" :>
    <<"U+1F86">>) @@ ("U+1F8F" :> <<"U+1F87">>)))) @@ ((("U+1F98" :>
    <<"U+1F90">>) @@ (("U+1F99" :> <<"U+1F91">>) @@ ("U+1F9A" :>
    <<"U+1F92">>))) @@ (("U+1F9B" :> <<"U+1F93">>) @@ (("U+1F9C" :>
    <<"U+1F94">>) @@ ("U+1F9D" :> <<"U+1F95">>)))))) @@ ((((("U+1F9E" :>
    <<"U+1F96">>) @@ ("U+1F9F" :> <<"U+1F97">>)) @@ (("U+1FA8" :>
    <<"U+1FA0">>) @@ (("U+1FA9" :> <<"U+1FA1">>) @@ ("U+1FAA" :>
    <<"U+1FA2">>)))) @@ ((("U+1FAB" :> <<"U+1FA3">>) @@ (("U+1FAC" :>
    <<"U+1FA4">>) @@ ("U+1FAD" :> <<"U+1FA5">>))) @@ (("U+1FAE" :>
    <<"U+1FA6">>) @@ (("U+1FAF" :> <<"U+1FA7">>) @@ ("U+1FB8" :>
    <<"U+1FB0">>))))) @@ (((("U+1FB9" :> <<"U+1FB1">>) @@ (("U+1FBA" :>
    <<"U+1F70">>) @@ ("U+1FBB" :> <<"U+1F71">>))) @@ (("U+1FBC" :>
    <<"U+1FB3">>) @@ (("U+1FC8" :> <<"U+1F72">>) @@ ("U+1FC9" :>
    <<"U+1F73">>)))) @@ ((("U+1FCA" :> <<"U+1F74">>) @@ (("U+1FCB" :>
    <<"U+1F75">>) @@ ("U+1FCC" :> <<"U+1FC3">>))) @@ (("U+1FD8" :>
    <<"U+1FD0">>) @@ (("U+1FD9" :> <<"U+1FD1">>) @@ ("U+1FDA" :>
    <<"U+1F76">>))))))) @@ (((((("U+1FDB" :> <<"U+1F77">>) @@ ("U+1FE8" :>
    <<"U+1FE0">>)) @@ (("U+1FE9" :> <<"U+1FE1">>) @@ (("U+1FEA" :>
    <<"U+1F7A">>) @@ ("U+1FEB" :> <<"U+1F7B">>)))) @@ ((("U+1FEC" :>
    <<"U+1FE5">>) @@ (("U+1FF8" :> <<"U+1F78">>) @@ ("U+1FF9" :>
    <<"U+1F79">>))) @@ (("U+1FFA" :> <<"U+1F7C">>) @@ (("U+1FFB" :>
    <<"U+1F7D">>) @@ ("U+1FFC" :> <<"U+1FF3">>))))) @@ (((("U+2126" :>
    <<"U+03C9">>) @@ ("U+212A" :> <<"k">>)) @@ (("U+212B" :> <<"å">>) @@
    (("U+2132" :> <<"U+214E">>) @@ ("U+2160" :> <<"U+2170">>)))) @@
    ((("U+2161" :> <<"U+2171">>) @@ (("U+2162" :> <<"U+2172">>) @@ ("U+2163"
    :> <<"U+2173">>))) @@ (("U+2164" :> <<"U+2174">>) @@ (("U+2165" :>
    <<"U+2175">>) @@ ("U+2166" :> <<"U+2176">>)))))) @@ ((((("U+2167" :>
    <<"U+2177">>) @@ ("U+2168" :> <<"U+2178">>)) @@ (("U+2169" :>
    <<"U+2179">>) @@ (("U+216A" :> <<"U+217A">>) @@ ("U+216B" :>
    <<"U+217B">>)))) @@ ((("U+216C" :> <<"U+217C">>) @@ (("U+216D" :>
    <<"U+217D">>) @@ ("U+216E" :> <<"U+217E">>))) @@ (("U+216F" :>
    <<"U+217F">>) @@ (("U+2183" :> <<"U+2184">>) @@ ("U+24B6" :>
    <<"U+24D0">>))))) @@ (((("U+24B7" :> <<"U+24D1">>) @@ (("U+24B8" :>
    <<"U+24D2">>) @@ ("U+24B9" :> <<"U+24D3">>))) @@ (("U+24BA" :>
    <<"U+24D4">>) @@ (("U+24BB" :> <<"U+24D5">>) @@ ("U+24BC" :>
    <<"U+24D6">>)))) @@ ((("U+24BD" :> <<"U+24D7">>) @@ (("U+24BE" :>
    <<"U+24D8">>) @@ ("U+24BF" :> <<"U+24D9">>))) @@ (("U+24C0" :>
    <<"U+24DA">>) @@ (("U+24C1" :> <<"U+24DB">>) @@ ("U+24C2" :>
    <<"U+24DC">>))))))))) @@ (((((((("U+24C3" :> <<"U+24DD">>) @@ ("U+24C4"
    :> <<"U+24DE">>)) @@ (("U+24C5" :> <<"U+24DF">>) @@ (("U+24C6" :>
    <<"U+24E0">>) @@ ("U+24C7" :> <<"U+24E1">>)))) @@ ((("U+24C8" :>
    <<"U+24E2">>) @@ (("U+24C9" :> <<"U+24E3">>) @@ ("U+24CA" :>
    <<"U+24E4">>))) @@ (("U+24CB" :> <<"U+24E5">>) @@ (("U+24CC" :>
    <<"U+24E6">>) @@ ("U+24CD" :> <<"U+24E7">>))))) @@ (((("U+24CE" :>
    <<"U+24E8">>) @@ ("U+24CF" :> <<"U+24E9">>)) @@ (("U+2C00" :>
    <<"U+2C30">>) @@ (("U+2C01" :> <<"U+2C31">>) @@ ("U+2C02" :>
    <<"U+2C32">>)))) @@ ((("U+2C03" :> <<"U+2C33">>) @@ (("U+2C04" :>
    <<"U+2C34">>) @@ ("U+2C05" :> <<"U+2C35">>))) @@ (("U+2C06" :>
    <<"U+2C36">>) @@ (("U+2C07" :> <<"U+2C37">>) @@ ("U+2C08" :>
    <<"U+2C38">>)))))) @@ ((((("U+2C09" :> <<"U+2C39">>) @@ ("U+2C0A" :>
    <<"U+2C3A">>)) @@ (("U+2C0B" :> <<"U+2C3B">>) @@ (("U+2C0C" :>
    <<"U+2C3C">>) @@ ("U+2C0D" :> <<"U+2C3D">>)))) @@ ((("U+2C0E" :>
    <<"U+2C3E">>) @@ (("U+2C0F" :> <<"U+2C3F">>) @@ ("U+2C10" :>
    <<"U+2C40">>))) @@ (("U+2C11" :> <<"U+2C41">>) @@ (("U+2C12" :>
    <<"U+2C42">>) @@ ("U+2C13" :> <<"U+2C43">>))))) @@ (((("U+2C14" :>
    <<"U+2C44">>) @@ ("U+2C15" :> <<"U+2C45">>)) @@ (("U+2C16" :>
    <<"U+2C46">>) @@ (("U+2C17" :> <<"U+2C47">>) @@ ("U+2C18" :>
    <<"U+2C48">>)))) @@ ((("U+2C19" :> <<"U+2C49">>) @@ (("U+2C1A" :>
    <<"U+2C4A">>) @@ ("U+2C1B" :> <<"U+2C4B">>))) @@ (("U+2C1C" :>
    <<"U+2C4C">>) @@ (("U+2C1D" :> <<"U+2C4D">>) @@ ("U+2C1E" :>
    <<"U+2C4E">>))))))) @@ (((((("U+2C1F" :> <<"U+2C4F">>) @@ ("U+2C20" :>
    <<"U+2C50">>)) @@ (("U+2C21" :> <<"U+2C51">>) @@ (("U+2C22" :>
    <<"U+2C52">>) @@ ("U+2C23" :> <<"U+2C53">>)))) @@ ((("U+2C24" :>
    <<"U+2C54">>) @@ (("U+2C25" :> <<"U+2C55">>) @@ ("U+2C26" :>
    <<"U+2C56">>))) @@ (("U+2C27" :> <<"U+2C57">>) @@ (("U+2C28" :>
    <<"U+2C58">>) @@ ("U+2C29" :> <<"U+2C59">>))))) @@ (((("U+2C2A" :>
    <<"U+2C5A">>) @@ ("U+2C2B" :> <<"U+2C5B">>)) @@ (("U+2C2C" :>
    <<"U+2C5C">>) @@ (("U+2C2D" :> <<"U+2C5D">>) @@ ("U+2C2E" :>
    <<"U+2C5E">>)))) @@ ((("U+2C2F" :> <<"U+2C5F">>) @@ (("U+2C60" :>
    <<"U+2C61">>) @@ ("U+2C62" :> <<"U+026B">>))) @@ (("U+2C63" :>
    <<"U+1D7D">>) @@ (("U+2C64" :> <<"U+027D">>) @@ ("U+2C67" :>
    <<"U+2C68">>)))))) @@ ((((("U+2C69" :> <<"U+2C6A">>) @@ ("U+2C6B" :>
    <<"U+2C6C">>)) @@ (("U+2C6D" :> <<"U+0251">>) @@ (("U+2C6E" :>
    <<"U+0271">>) @@ ("U+2C6F" :> <<"U+0250">>)))) @@ ((("U+2C70" :>
    <<"U+0252">>) @@ (("U+2C72" :> <<"U+2C73">>) @@ ("U+2C75" :>
    <<"U+2C76">>))) @@ (("U+2C7E" :> <<"U+023F">>) @@ (("U+2C7F" :>
    <<"U+0240">>) @@ ("U+2C80" :> <<"U+2C81">>))))) @@ (((("U+2C82" :>
    <<"U+2C83">>) @@ (("U+2C84" :> <<"U+2C85">>) @@ ("U+2C86" :>
    <<"U+2C87">>))) @@ (("U+2C88" :> <<"U+2C89">>) @@ (("U+2C8A" :>
    <<"U+2C8B">>) @@ ("U+2C8C" :> <<"U+2C8D">>)))) @@ ((("U+2C8E" :>
    <<"U+2C8F">>) @@ (("U+2C90" :> <<"U+2C91">>) @@ ("U+2C92" :>
    <<"U+2C93">>))) @@ (("U+2C94" :> <<"U+2C95">>) @@ (("U+2C96" :>
    <<"U+2C97">>) @@ ("U+2C98" :> <<"U+2C99">>)))))))) @@ ((((((("U+2C9A" :>
    <<"U+2C9B">>) @@ ("U+2C9C" :> <<"U+2C9D">>)) @@ (("U+2C9E" :>
    <<"U+2C9F">>) @@ (("U+2CA0" :> <<"U+2CA1">>) @@ ("U+2CA2" :>
    <<"U+2CA3">>)))) @@ ((("U+2CA4" :> <<"U+2CA5">>) @@ (("U+2CA6" :>
    <<"U+2CA7">>) @@ ("U+2CA8" :> <<"U+2CA9">>))) @@ (("U+2CAA" :>
    <<"U+2CAB">>) @@ (("U+2CAC" :> <<"U+2CAD">>) @@ ("U+2CAE" :>
    <<"U+2CAF">>))))) @@ (((("U+2CB0" :> <<"U+2CB1">>) @@ ("U+2CB2" :>
    <<"U+2CB3">>)) @@ (("U+2CB4" :> <<"U+2CB5">>) @@ (("U+2CB6" :>
    <<"U+2CB7">>) @@ ("U+2CB8" :> <<"U+2CB9">>)))) @@ ((("U+2CBA" :>
    <<"U+2CBB">>) @@ (("U+2CBC" :> <<"U+2CBD">>) @@ ("U+2CBE" :>
    <<"U+2CBF">>))) @@ (("U+2CC0" :> <<"U+2CC1">>) @@ (("U+2CC2" :>
    <<"U+2CC3">>) @@ ("U+2CC4" :> <<"U+2CC5">>)))))) @@ ((((("U+2CC6" :>
    <<"U+2CC7">>) @@ ("U+2CC8" :> <<"U+2CC9">>)) @@ (("U+2CCA" :>
    <<"U+2CCB">>) @@ (("U+2CCC" :> <<"U+2CCD">>) @@ ("U+2CCE" :>
    <<"U+2CCF">>)))) @@ ((("U+2CD0" :> <<"U+2CD1">>) @@ (("U+2CD2" :>
    <<"U+2CD3">>) @@ ("U+2CD4" :> <<"U+2CD5">>))) @@ (("U+2CD6" :>
    <<"U+2CD7">>) @@ (("U+2CD8" :> <<"U+2CD9">>) @@ ("U+2CDA" :>
    <<"U+2CDB">>))))) @@ (((("U+2CDC" :> <<"U+2CDD">>) @@ (("U+2CDE" :>
    <<"U+2CDF">>) @@ ("U+2CE0" :> <<"U+2CE1">>))) @@ (("U+2CE2" :>
    <<"U+2CE3">>) @@ (("U+2CEB" :> <<"U+2CEC">>) @@ ("U+2CED" :>
    <<"U+2CEE">>)))) @@ ((("U+2CF2" :> <<"U+2CF3">>) @@ (("U+A640" :>
    <<"U+A641">>) @@ ("U+A642" :> <<"U+A643">>))) @@ (("U+A644" :>
    <<"U+A645">>) @@ (("U+A646" :> <<"U+A647">>) @@ ("U+A648" :>
    <<"U+A649">>))))))) @@ (((((("U+A64A" :> <<"U+A64B">>) @@ ("U+A64C" :>
    <<"U+A64D">>)) @@ (("U+A64E" :> <<"U+A64F">>) @@ (("U+A650" :>
    <<"U+A651">>) @@ ("U+A652" :> <<"U+A653">>)))) @@ ((("U+A654" :>
    <<"U+A655">>) @@ (("U+A656" :> <<"U+A657">>) @@ ("U+A658" :>
    <<"U+A659">>))) @@ (("U+A65A" :> <<"U+A65B">>) @@ (("U+A65C" :>
    <<"U+A65D">>) @@ ("U+A65E" :> <<"U+A65F">>))))) @@ (((("U+A660" :>
    <<"U+A661">>) @@ ("U+A662" :> <<"U+A663">>)) @@ (("U+A664" :>
    <<"U+A665">>) @@ (("U+A666" :> <<"U+A667">>) @@ ("U+A668" :>
    <<"U+A669">>)))) @@ ((("U+A66A" :> <<"U+A66B">>) @@ (("U+A66C" :>
    <<"U+A66D">>) @@ ("U+A680" :> <<"U+A681">>))) @@ (("U+A682" :>
    <<"U+A683">>) @@ (("U+A684" :> <<"U+A685">>) @@ ("U+A686" :>
    <<"U+A687">>)))))) @@ ((((("U+A688" :> <<"U+A689">>) @@ ("U+A68A" :>
    <<"U+A68B">>)) @@ (("U+A68C" :> <<"U+A68D">>) @@ (("U+A68E" :>
    <<"U+A68F">>) @@ ("U+A690" :> <<"U+A691">>)))) @@ ((("U+A692" :>
    <<"U+A693">>) @@ (("U+A694" :> <<"U+A695">>) @@ ("U+A696" :>
    <<"U+A697">>))) @@ (("U+A698" :> <<"U+A699">>) @@ (("U+A69A" :>
    <<"U+A69B">>) @@ ("U+A722" :> <<"U+A723">>))))) @@ (((("U+A724" :>
    <<"U+A725">>) @@ (("U+A726" :> <<"U+A727">>) @@ ("U+A728" :>
    <<"U+A729">>))) @@ (("U+A72A" :> <<"U+A72B">>) @@ (("U+A72C" :>
    <<"U+A72D">>) @@ ("U+A72E" :> <<"U+A72F">>)))) @@ ((("U+A732" :>
    <<"U+A733">>) @@ (("U+A734" :> <<"U+A735">>) @@ ("U+A736" :>
    <<"U+A737">>))) @@ (("U+A738" :> <<"U+A739">>) @@ (("U+A73A" :>
    <<"U+A73B">>) @@ ("U+A73C" :> <<"U+A73D">>)))))))))) @@ ((((((((("U+A73E"
    :> <<"U+A73F">>) @@ ("U+A740" :> <<"U+A741">>)) @@ (("U+A742" :>
    <<"U+A743">>) @@ (("U+A744" :> <<"U+A745">>) @@ ("U+A746" :>
    <<"U+A747">>)))) @@ ((("U+A748" :> <<"U+A749">>) @@ (("U+A74A" :>
    <<"U+A74B">>) @@ ("U+A74C" :> <<"U+A74D">>))) @@ (("U+A74E" :>
    <<"U+A74F">>) @@ (("U+A750" :> <<"U+A751">>) @@ ("U+A752" :>
    <<"U+A753">>))))) @@ (((("U+A754" :> <<"U+A755">>) @@ ("U+A756" :>
    <<"U+A757">>)) @@ (("U+A758" :> <<"U+A759">>) @@ (("U+A75A" :>
    <<"U+A75B">>) @@ ("U+A75C" :> <<"U+A75D">>)))) @@ ((("U+A75E" :>
    <<"U+A75F">>) @@ (("U+A760" :> <<"U+A761">>) @@ ("U+A762" :>
    <<"U+A763">>))) @@ (("U+A764" :> <<"U+A765">>) @@ (("U+A766" :>
    <<"U+A767">>) @@ ("U+A768" :> <<"U+A769">>)))))) @@ ((((("U+A76A" :>
    <<"U+A76B">>) @@ ("U+A76C" :> <<"U+A76D">>)) @@ (("U+A76E" :>
    <<"U+A76F">>) @@ (("U+A779" :> <<"U+A77A">>) @@ ("U+A77B" :>
    <<"U+A77C">>)))) @@ ((("U+A77D" :> <<"U+1D79">>) @@ (("U+A77E" :>
    <<"U+A77F">>) @@ ("U+A780" :> <<"U+A781">>))) @@ (("U+A782" :>
    <<"U+A783">>) @@ (("U+A784" :> <<"U+A785">>) @@ ("U+A786" :>
    <<"U+A787">>))))) @@ (((("U+A78B" :> <<"U+A78C">>) @@ ("U+A78D" :>
    <<"U+0265">>)) @@ (("U+A790" :> <<"U+A791">>) @@ (("U+A792" :>
    <<"U+A793">>) @@ ("U+A796" :> <<"U+A797">>)))) @@ ((("U+A798" :>
    <<"U+A799">>) @@ (("U+A79A" :> <<"U+A79B">>) @@ ("U+A79C" :>
    <<"U+A79D">>))) @@ (("U+A79E" :> <<"U+A79F">>) @@ (("U+A7A0" :>
    <<"U+A7A1">>) @@ ("U+A7A2" :> <<"U+A7A3">>))))))) @@ (((((("U+A7A4" :>
    <<"U+A7A5">>) @@ ("U+A7A6" :> <<"U+A7A7">>)) @@ (("U+A7A8" :>
    <<"U+A7A9">>) @@ (("U+A7AA" :> <<"U+0266">>) @@ ("U+A7AB" :>
    <<"U+025C">>)))) @@ ((("U+A7AC" :> <<"U+0261">>) @@ (("U+A7AD" :>
    <<"U+026C">>) @@ ("U+A7AE" :> <<"U+026A">>))) @@ (("U+A7B0" :>
    <<"U+029E">>) @@ (("U+A7B1" :> <<"U+0287">>) @@ ("U+A7B2" :>
    <<"U+029D">>))))) @@ (((("U+A7B3" :> <<"U+AB53">>) @@ ("U+A7B4" :>
    <<"U+A7B5">>)) @@ (("U+A7B6" :> <<"U+A7B7">>) @@ (("U+A7B8" :>
    <<"U+A7B9">>) @@ ("U+A7BA" :> <<"U+A7BB">>)))) @@ ((("U+A7BC" :>
    <<"U+A7BD">>) @@ (("U+A7BE" :> <<"U+A7BF">>) @@ ("U+A7C0" :>
    <<"U+A7C1">>))) @@ (("U+A7C2" :> <<"U+A7C3">>) @@ (("U+A7C4" :>
    <<"U+A794">>) @@ ("U+A7C5" :> <<"U+0282">>)))))) @@ ((((("U+A7C6" :>
    <<"U+1D8E">>) @@ ("U+A7C7" :> <<"U+A7C8">>)) @@ (("U+A7C9" :>
    <<"U+A7CA">>) @@ (("U+A7D0" :> <<"U+A7D1">>) @@ ("U+A7D6" :>
    <<"U+A7D7">>)))) @@ ((("U+A7D8" :> <<"U+A7D9">>) @@ (("U+A7F5" :>
    <<"U+A7F6">>) @@ ("U+FF21" :> <<"U+FF41">>))) @@ (("U+FF22" :>
    <<"U+FF42">>) @@ (("U+FF23" :> <<"U+FF43">>) @@ ("U+FF24" :>
    <<"U+FF44">>))))) @@ (((("U+FF25" :> <<"U+FF45">>) @@ (("U+FF26" :>
    <<"U+FF46">>) @@ ("U+FF27" :> <<"U+FF47">>))) @@ (("U+FF28" :>
    <<"U+FF48">>) @@ (("U+FF29" :> <<"U+FF49">>) @@ ("U+FF2A" :>
    <<"U+FF4A">>)))) @@ ((("U+FF2B" :> <<"U+FF4B">>) @@ (("U+FF2C" :>
    <<"U+FF4C">>) @@ ("U+FF2D" :> <<"U+FF4D">>))) @@ (("U+FF2E" :>
    <<"U+FF4E">>) @@ (("U+FF2F" :> <<"U+FF4F">>) @@ ("U+FF30" :>
    <<"U+FF50">>)))))))) @@ ((((((("U+FF31" :> <<"U+FF51">>) @@ ("U+FF32" :>
    <<"U+FF52">>)) @@ (("U+FF33" :> <<"U+FF53">>) @@ (("U+FF34" :>
    <<"U+FF54">>) @@ ("U+FF35" :> <<"U+FF55">>)))) @@ ((("U+FF36" :>
    <<"U+FF56">>) @@ (("U+FF37" :> <<"U+FF57">>) @@ ("U+FF38" :>
    <<"U+FF58">>))) @@ (("U+FF39" :> <<"U+FF59">>) @@ (("U+FF3A" :>
    <<"U+FF5A">>) @@ ("U+10400" :> <<"U+10428">>))))) @@ (((("U+10401" :>
    <<"U+10429">>) @@ ("U+10402" :> <<"U+1042A">>)) @@ (("U+10403" :>
    <<"U+1042B">>) @@ (("U+10404" :> <<"U+1042C">>) @@ ("U+10405" :>
    <<"U+1042D">>)))) @@ ((("U+10406" :> <<"U+1042E">>) @@ (("U+10407" :>
    <<"U+1042F">>) @@ ("U+10408" :> <<"U+10430">>))) @@ (("U+10409" :>
    <<"U+10431">>) @@ (("U+1040A" :> <<"U+10432">>) @@ ("U+1040B" :>
    <<"U+10433">>)))))) @@ ((((("U+1040C" :> <<"U+10434">>) @@ ("U+1040D" :>
    <<"U+10435">>)) @@ (("U+1040E" :> <<"U+10436">>) @@ (("U+1040F" :>
    <<"U+10437">>) @@ ("U+10410" :> <<"U+10438">>)))) @@ ((("U+10411" :>
    <<"U+10439">>) @@ (("U+10412" :> <<"U+1043A">>) @@ ("U+10413" :>
    <<"U+1043B">>))) @@ (("U+10414" :> <<"U+1043C">>) @@ (("U+10415" :>
    <<"U+1043D">>) @@ ("U+10416" :> <<"U+1043E">>))))) @@ (((("U+10417" :>
    <<"U+1043F">>) @@ (("U+10418" :> <<"U+10440">>) @@ ("U+10419" :>
    <<"U+10441">>))) @@ (("U+1041A" :> <<"U+10442">>) @@ (("U+1041B" :>
    <<"U+10443">>) @@ ("U+1041C" :> <<"U+10444">>)))) @@ ((("U+1041D" :>
    <<"U+10445">>) @@ (("U+1041E" :> <<"U+10446">>) @@ ("U+1041F" :>
    <<"U+10447">>))) @@ (("U+10420" :> <<"U+10448">>) @@ (("U+10421" :>
    <<"U+10449">>) @@ ("U+10422" :> <<"U+1044A">>))))))) @@ (((((("U+10423"
    :> <<"U+1044B">>) @@ ("U+10424" :> <<"U+1044C">>)) @@ (("U+10425" :>
    <<"U+1044D">>) @@ (("U+10426" :> <<"U+1044E">>) @@ ("U+10427" :>
    <<"U+1044F">>)))) @@ ((("U+104B0" :> <<"U+104D8">>) @@ (("U+104B1" :>
    <<"U+104D9">>) @@ ("U+104B2" :> <<"U+104DA">>))) @@ (("U+104B3" :>
    <<"U+104DB">>) @@ (("U+104B4" :> <<"U+104DC">>) @@ ("U+104B5" :>
    <<"U+104DD">>))))) @@ (((("U+104B6" :> <<"U+104DE">>) @@ ("U+104B7" :>
    <<"U+104DF">>)) @@ (("U+104B8" :> <<"U+104E0">>) @@ (("U+104B9" :>
    <<"U+104E1">>) @@ ("U+104BA" :> <<"U+104E2">>)))) @@ ((("U+104BB" :>
    <<"U+104E3">>) @@ (("U+104BC" :> <<"U+104E4">>) @@ ("U+104BD" :>
    <<"U+104E5">>))) @@ (("U+104BE" :> <<"U+104E6">>) @@ (("U+104BF" :>
    <<"U+104E7">>) @@ ("U+104C0" :> <<"U+104E8">>)))))) @@ ((((("U+104C1" :>
    <<"U+104E9">>) @@ ("U+104C2" :> <<"U+104EA">>)) @@ (("U+104C3" :>
    <<"U+104EB">>) @@ (("U+104C4" :> <<"U+104EC">>) @@ ("U+104C5" :>
    <<"U+104ED">>)))) @@ ((("U+104C6" :> <<"U+104EE">>) @@ (("U+104C7" :>
    <<"U+104EF">>) @@ ("U+104C8" :> <<"U+104F0">>))) @@ (("U+104C9" :>
    <<"U+104F1">>) @@ (("U+104CA" :> <<"U+104F2">>) @@ ("U+104CB" :>
    <<"U+104F3">>))))) @@ (((("U+104CC" :> <<"U+104F4">>) @@ (("U+104CD" :>
    <<"U+104F5">>) @@ ("U+104CE" :> <<"U+104F6">>))) @@ (("U+104CF" :>
    <<"U+104F7">>) @@ (("U+104D0" :> <<"U+104F8">>) @@ ("U+104D1" :>
    <<"U+104F9">>)))) @@ ((("U+104D2" :> <<"U+104FA">>) @@ (("U+104D3" :>
    <<"U+104FB">>) @@ ("U+10570" :> <<"U+10597">>))) @@ (("U+10571" :>
    <<"U+10598">>) @@ (("U+10572" :> <<"U+10599">>) @@ ("U+10573" :>
    <<"U+1059A">>))))))))) @@ (((((((("U+10574" :> <<"U+1059B">>) @@
    ("U+10575" :> <<"U+1059C">>)) @@ (("U+10576" :> <<"U+1059D">>) @@
    (("U+10577" :> <<"U+1059E">>) @@ ("U+10578" :> <<"U+1059F">>)))) @@
    ((("U+10579" :> <<"U+105A0">>) @@ (("U+1057A" :> <<"U+105A1">>) @@
    ("U+1057C" :> <<"U+105A3">>))) @@ (("U+1057D" :> <<"U+105A4">>) @@
    (("U+1057E" :> <<"U+105A5">>) @@ ("U+1057F" :> <<"U+105A6">>))))) @@
    (((("U+10580" :> <<"U+105A7">>) @@ ("U+10581" :> <<"U+105A8">>)) @@
    (("U+10582" :> <<"U+105A9">>) @@ (("U+10583" :> <<"U+105AA">>) @@
    ("U+10584" :> <<"U+105AB">>)))) @@ ((("U+10585" :> <<"U+105AC">>) @@
    (("U+10586" :> <<"U+105AD">>) @@ ("U+10587" :> <<"U+105AE">>))) @@
    (("U+10588" :> <<"U+105AF">>) @@ (("U+10589" :> <<"U+105B0">>) @@
    ("U+1058A" :> <<"U+105B1">>)))))) @@ ((((("U+1058C" :> <<"U+105B3">>) @@
    ("U+1058D" :> <<"U+105B4">>)) @@ (("U+1058E" :> <<"U+105B5">>) @@
    (("U+1058F" :> <<"U+105B6">>) @@ ("U+10590" :> <<"U+105B7">>)))) @@
    ((("U+10591" :> <<"U+105B8">>) @@ (("U+10592" :> <<"U+105B9">>) @@
    ("U+10594" :> <<"U+105BB">>))) @@ (("U+10595" :> <<"U+105BC">>) @@
    (("U+10C80" :> <<"U+10CC0">>) @@ ("U+10C81" :> <<"U+10CC1">>))))) @@
    (((("U+10C82" :> <<"U+10CC2">>) @@ (("U+10C83" :> <<"U+10CC3">>) @@
    ("U+10C84" :> <<"U+10CC4">>))) @@ (("U+10C85" :> <<"U+10CC5">>) @@
    (("U+10C86" :> <<"U+10CC6">>) @@ ("U+10C87" :> <<"U+10CC7">>)))) @@
    ((("U+10C88" :> <<"U+10CC8">>) @@ (("U+10C89" :> <<"U+10CC9">>) @@
    ("U+10C8A" :> <<"U+10CCA">>))) @@ (("U+10C8B" :> <<"U+10CCB">>) @@
    (("U+10C8C" :> <<"U+10CCC">>) @@ ("U+10C8D" :> <<"U+10CCD">>))))))) @@
    (((((("U+10C8E" :> <<"U+10CCE">>) @@ ("U+10C8F" :> <<"U+10CCF">>)) @@
    (("U+10C90" :> <<"U+10CD0">>) @@ (("U+10C91" :> <<"U+10CD1">>) @@
    ("U+10C92" :> <<"U+10CD2">>)))) @@ ((("U+10C93" :> <<"U+10CD3">>) @@
    (("U+10C94" :> <<"U+10CD4">>) @@ ("U+10C95" :> <<"U+10CD5">>))) @@
    (("U+10C96" :> <<"U+10CD6">>) @@ (("U+10C97" :> <<"U+10CD7">>) @@
    ("U+10C98" :> <<"U+10CD8">>))))) @@ (((("U+10C99" :> <<"U+10CD9">>) @@
    ("U+10C9A" :> <<"U+10CDA">>)) @@ (("U+10C9B" :> <<"U+10CDB">>) @@
    (("U+10C9C" :> <<"U+10CDC">>) @@ ("U+10C9D" :> <<"U+10CDD">>)))) @@
    ((("U+10C9E" :> <<"U+10CDE">>) @@ (("U+10C9F" :> <<"U+10CDF">>) @@
    ("U+10CA0" :> <<"U+10CE0">>))) @@ (("U+10CA1" :> <<"U+10CE1">>) @@
    (("U+10CA2" :> <<"U+10CE2">>) @@ ("U+10CA3" :> <<"U+10CE3">>)))))) @@
    ((((("U+10CA4" :> <<"U+10CE4">>) @@ ("U+10CA5" :> <<"U+10CE5">>)) @@
    (("U+10CA6" :> <<"U+10CE6">>) @@ (("U+10CA7" :> <<"U+10CE7">>) @@
    ("U+10CA8" :> <<"U+10CE8">>)))) @@ ((("U+10CA9" :> <<"U+10CE9">>) @@
    (("U+10CAA" :> <<"U+10CEA">>) @@ ("U+10CAB" :> <<"U+10CEB">>))) @@
    (("U+10CAC" :> <<"U+10CEC">>) @@ (("U+10CAD" :> <<"U+10CED">>) @@
    ("U+10CAE" :> <<"U+10CEE">>))))) @@ (((("U+10CAF" :> <<"U+10CEF">>) @@
    (("U+10CB0" :> <<"U+10CF0">>) @@ ("U+10CB1" :> <<"U+10CF1">>))) @@
    (("U+10CB2" :> <<"U+10CF2">>) @@ (("U+118A0" :> <<"U+118C0">>) @@
    ("U+118A1" :> <<"U+118C1">>)))) @@ ((("U+118A2" :> <<"U+118C2">>) @@
    (("U+118A3" :> <<"U+118C3">>) @@ ("U+118A4" :> <<"U+118C4">>))) @@
    (("U+118A5" :> <<"U+118C5">>) @@ (("U+118A6" :> <<"U+118C6">>) @@
    ("U+118A7" :> <<"U+118C7">>)))))))) @@ ((((((("U+118A8" :> <<"U+118C8">>)
    @@ ("U+118A9" :> <<"U+118C9">>)) @@ (("U+118AA" :> <<"U+118CA">>) @@
    (("U+118AB" :> <<"U+118CB">>) @@ ("U+118AC" :> <<"U+118CC">>)))) @@
    ((("U+118AD" :> <<"U+118CD">>) @@ (("U+118AE" :> <<"U+118CE">>) @@
    ("U+118AF" :> <<"U+118CF">>))) @@ (("U+118B0" :> <<"U+118D0">>) @@
    (("U+118B1" :> <<"U+118D1">>) @@ ("U+118B2" :> <<"U+118D2">>))))) @@
    (((("U+118B3" :> <<"U+118D3">>) @@ ("U+118B4" :> <<"U+118D4">>)) @@
    (("U+118B5" :> <<"U+118D5">>) @@ (("U+118B6" :> <<"U+118D6">>) @@
    ("U+118B7" :> <<"U+118D7">>)))) @@ ((("U+118B8" :> <<"U+118D8">>) @@
    (("U+118B9" :> <<"U+118D9">>) @@ ("U+118BA" :> <<"U+118DA">>))) @@
    (("U+118BB" :> <<"U+118DB">>) @@ (("U+118BC" :> <<"U+118DC">>) @@
    ("U+118BD" :> <<"U+118DD">>)))))) @@ ((((("U+118BE" :> <<"U+118DE">>) @@
    ("U+118BF" :> <<"U+118DF">>)) @@ (("U+16E40" :> <<"U+16E60">>) @@
    (("U+16E41" :> <<"U+16E61">>) @@ ("U+16E42" :> <<"U+16E62">>)))) @@
    ((("U+16E43" :> <<"U+16E63">>) @@ (("U+16E44" :> <<"U+16E64">>) @@
    ("U+16E45" :> <<"U+16E65">>))) @@ (("U+16E46" :> <<"U+16E66">>) @@
    (("U+16E47" :> <<"U+16E67">>) @@ ("U+16E48" :> <<"U+16E68">>))))) @@
    (((("U+16E49" :> <<"U+16E69">>) @@ (("U+16E4A" :> <<"U+16E6A">>) @@
    ("U+16E4B" :> <<"U+16E6B">>))) @@ (("U+16E4C" :> <<"U+16E6C">>) @@
    (("U+16E4D" :> <<"U+16E6D">>) @@ ("U+16E4E" :> <<"U+16E6E">>)))) @@
    ((("U+16E4F" :> <<"U+16E6F">>) @@ (("U+16E50" :> <<"U+16E70">>) @@
    ("U+16E51" :> <<"U+16E71">>))) @@ (("U+16E52" :> <<"U+16E72">>) @@
    (("U+16E53" :> <<"U+16E73">>) @@ ("U+16E54" :> <<"U+16E74">>))))))) @@
    (((((("U+16E55" :> <<"U+16E75">>) @@ ("U+16E56" :> <<"U+16E76">>)) @@
    (("U+16E57" :> <<"U+16E77">>) @@ (("U+16E58" :> <<"U+16E78">>) @@
    ("U+16E59" :> <<"U+16E79">>)))) @@ ((("U+16E5A" :> <<"U+16E7A">>) @@
    (("U+16E5B" :> <<"U+16E7B">>) @@ ("U+16E5C" :> <<"U+16E7C">>))) @@
    (("U+16E5D" :> <<"U+16E7D">>) @@ (("U+16E5E" :> <<"U+16E7E">>) @@
    ("U+16E5F" :> <<"U+16E7F">>))))) @@ (((("U+1E900" :> <<"U+1E922">>) @@
    ("U+1E901" :> <<"U+1E923">>)) @@ (("U+1E902" :> <<"U+1E924">>) @@
    (("U+1E903" :> <<"U+1E925">>) @@ ("U+1E904" :> <<"U+1E926">>)))) @@
    ((("U+1E905" :> <<"U+1E927">>) @@ (("U+1E906" :> <<"U+1E928">>) @@
    ("U+1E907" :> <<"U+1E929">>))) @@ (("U+1E908" :> <<"U+1E92A">>) @@
    (("U+1E909" :> <<"U+1E92B">>) @@ ("U+1E90A" :> <<"U+1E92C">>)))))) @@
    ((((("U+1E90B" :> <<"U+1E92D">>) @@ ("U+1E90C" :> <<"U+1E92E">>)) @@
    (("U+1E90D" :> <<"U+1E92F">>) @@ (("U+1E90E" :> <<"U+1E930">>) @@
    ("U+1E90F" :> <<"U+1E931">>)))) @@ ((("U+1E910" :> <<"U+1E932">>) @@
    (("U+1E911" :> <<"U+1E933">>) @@ ("U+1E912" :> <<"U+1E934">>))) @@
    (("U+1E913" :> <<"U+1E935">>) @@ (("U+1E914" :> <<"U+1E936">>) @@
    ("U+1E915" :> <<"U+1E937">>))))) @@ (((("U+1E916" :> <<"U+1E938">>) @@
    (("U+1E917" :> <<"U+1E939">>) @@ ("U+1E918" :> <<"U+1E93A">>))) @@
    (("U+1E919" :> <<"U+1E93B">>) @@ (("U+1E91A" :> <<"U+1E93C">>) @@
    ("U+1E91B" :> <<"U+1E93D">>)))) @@ ((("U+1E91C" :> <<"U+1E93E">>) @@
    (("U+1E91D" :> <<"U+1E93F">>) @@ ("U+1E91E" :> <<"U+1E940">>))) @@
    (("U+1E91F" :> <<"U+1E941">>) @@ (("U+1E920" :> <<"U+1E942">>) @@
    ("U+1E921" :> <<"U+1E943">>))))))))))))

LowerChanged == DOMAIN LowerMap

LowerChar(c) == IF c \in LowerChanged THEN LowerMap[c] ELSE <<c>>

\* the cased characters (lower case, upper case and title case letters)
CasedRanges ==
    {<<\h0100, \h01BA>>, <<\h01BC, \h01BF>>, <<\h01C4, \h0293>>,
     <<\h0295, \h02B8>>, <<\h02C0, \h02C1>>, <<\h02E0, \h02E4>>,
     <<\h0345, \h0345>>, <<\h0370, \h0373>>, <<\h0376, \h0377>>,
     <<\h037A, \h037D>>, <<\h037F, \h037F>>, <<\h0386, \h0386>>,
     <<\h0388, \h038A>>, <<\h038C, \h038C>>, <<\h038E, \h03A1>>,
     <<\h03A3, \h03F5>>, <<\h03F7, \h0481>>, <<\h048A, \h052F>>,
     <<\h0531, \h0556>>, <<\h0560, \h0588>>, <<\h10A0, \h10C5>>,
     <<\h10C7, \h10C7>>, <<\h10CD, \h10CD>>, <<\h10D0, \h10FA>>,
     <<\h10FD, \h10FF>>, <<\h13A0, \h13F5>>, <<\h13F8, \h13FD>>,
     <<\h1C80, \h1C88>>, <<\h1C90, \h1CBA>>, <<\h1CBD, \h1CBF>>,
     <<\h1D00, \h1DBF>>, <<\h1E00, \h1F15>>, <<\h1F18, \h1F1D>>,
     <<\h1F20, \h1F45>>, <<\h1F48, \h1F4D>>, <<\h1F50, \h1F57>>,
     <<\h1F59, \h1F59>>, <<\h1F5B, \h1F5B>>, <<\h1F5D, \h1F5D>>,
     <<\h1F5F, \h1F7D>>, <<\h1F80, \h1FB4>>, <<\h1FB6, \h1FBC>>,
     <<\h1FBE, \h1FBE>>, <<\h1FC2, \h1FC4>>, <<\h1FC6, \h1FCC>>,
     <<\h1FD0, \h1FD3>>, <<\h1FD6, \h1FDB>>, <<\h1FE0, \h1FEC>>,
     <<\h1FF2, \h1FF4>>, <<\h1FF6, \h1FFC>>, <<\h2071, \h2071>>,
     <<\h207F, \h207F>>, <<\h2090, \h209C>>, <<\h2102, \h2102>>,
     <<\h2107, \h2107>>, <<\h210A, \h2113>>, <<\h2115, \h2115>>,
     <<\h2119, \h211D>>, <<\h2124, \h2124>>, <<\h2126, \h2126>>,
     <<\h2128, \h2128>>, <<\h212A, \h212D>>, <<\h212F, \h2134>>,
     <<\h2139, \h2139>>, <<\h213C, \h213F>>, <<\h2145, \h2149>>,
     <<\h214E, \h214E>>, <<\h2160, \h217F>>, <<\h2183, \h2184>>,
     <<\h24B6, \h24E9>>, <<\h2C00, \h2CE4>>, <<\h2CEB, \h2CEE>>,
     <<\h2CF2, \h2CF3>>, <<\h2D00, \h2D25>>, <<\h2D27, \h2D27>>,
     <<\h2D2D, \h2D2D>>, <<\hA640, \hA66D>>, <<\hA680, \hA69D>>,
     <<\hA722, \hA787>>, <<\hA78B, \hA78E>>, <<\hA790, \hA7CA>>,
     <<\hA7D0, \hA7D1>>, <<\hA7D3, \hA7D3>>, <<\hA7D5, \hA7D9>>,
     <<\hA7F5, \hA7F6>>, <<\hA7F8, \hA7FA>>, <<\hAB30, \hAB5A>>,
     <<\hAB5C, \hAB68>>, <<\hAB70, \hABBF>>, <<\hFB00, \hFB06>>,
     <<\hFB13, \hFB17>>, <<\hFF21, \hFF3A>>, <<\hFF41, \hFF5A>>,
     <<\h10400, \h1044F>>, <<\h104B0, \h104D3>>, <<\h104D8, \h104FB>>,
     <<\h10570, \h1057A>>, <<\h1057C, \h1058A>>, <<\h1058C, \h10592>>,
     <<\h10594, \h10595>>, <<\h10597, \h105A1>>, <<\h105A3, \h105B1>>,
     <<\h105B3, \h105B9>>, <<\h105BB, \h105BC>>, <<\h10780, \h10780>>,
     <<\h10783, \h10785>>, <<\h10787, \h107B0>>, <<\h107B2, \h107BA>>,
     <<\h10C80, \h10CB2>>, <<\h10CC0, \h10CF2>>, <<\h118A0, \h118DF>>,
     <<\h16E40, \h16E7F>>, <<\h1D400, \h1D454>>, <<\h1D456, \h1D49C>>,
     <<\h1D49E, \h1D49F>>, <<\h1D4A2, \h1D4A2>>, <<\h1D4A5, \h1D4A6>>,
     <<\h1D4A9, \h1D4AC>>, <<\h1D4AE, \h1D4B9>>, <<\h1D4BB, \h1D4BB>>,
     <<\h1D4BD, \h1D4C3>>, <<\h1D4C5, \h1D505>>, <<\h1D507, \h1D50A>>,
     <<\h1D50D, \h1D514>>, <<\h1D516, \h1D51C>>, <<\h1D51E, \h1D539>>,
     <<\h1D53B, \h1D53E>>, <<\h1D540, \h1D544>>, <<\h1D546, \h1D546>>,
     <<\h1D54A, \h1D550>>, <<\h1D552, \h1D6A5>>, <<\h1D6A8, \h1D6C0>>,
     <<\h1D6C2, \h1D6DA>>, <<\h1D6DC, \h1D6FA>>, <<\h1D6FC, \h1D714>>,
     <<\h1D716, \h1D734>>, <<\h1D736, \h1D74E>>, <<\h1D750, \h1D76E>>,
     <<\h1D770, \h1D788>>, <<\h1D78A, \h1D7A8>>, <<\h1D7AA, \h1D7C2>>,
     <<\h1D7C4, \h1D7CB>>, <<\h1DF00, \h1DF09>>, <<\h1DF0B, \h1DF1E>>,
     <<\h1E900, \h1E943>>, <<\h1F130, \h1F149>>, <<\h1F150, \h1F169>>,
     <<\h1F170, \h1F189>>}

Cased ==
    {"A", "B", "C", "D", "E", "F", "G", "H", "I", "J", "K", "L", "M", "N",
     "O", "P", "Q", "R", "S", "T", "U", "V", "W", "X", "Y", "Z", "a", "b",
     "c", "d", "e", "f", "g", "h", "i", "j", "k", "l", "m", "n", "o", "p",
     "q", "r", "s", "t", "u", "v", "w", "x", "y", "z", "ª", "µ", "º", "À",
     "Á", "Â", "Ã", "Ä", "Å", "Æ", "Ç", "È", "É", "Ê", "Ë", "Ì", "Í", "Î",
     "Ï", "Ð", "Ñ", "Ò", "Ó", "Ô", "Õ", "Ö", "Ø", "Ù", "Ú", "Û", "Ü", "Ý",
     "Þ", "ß", "à", "á", "â", "ã", "ä", "å", "æ", "ç", "è", "é", "ê", "ë",
     "ì", "í", "î", "ï", "ð", "ñ", "ò", "ó", "ô", "õ", "ö", "ø", "ù", "ú",
     "û", "ü", "ý", "þ", "ÿ"}
    \cup CharsOf(CasedRanges)

\* the characters a casing context skips (marks, modifiers, format
\* characters, the apostrophe, the full stop, the colon ...)
CaseIgnorableRanges ==
    {<<\h02B0, \h036F>>, <<\h0374, \h0375>>, <<\h037A, \h037A>>,
     <<\h0384, \h0385>>, <<\h0387, \h0387>>, <<\h0483, \h0489>>,
     <<\h0559, \h0559>>, <<\h055F, \h055F>>, <<\h0591, \h05BD>>,
     <<\h05BF, \h05BF>>, <<\h05C1, \h05C2>>, <<\h05C4, \h05C5>>,
     <<\h05C7, \h05C7>>, <<\h05F4, \h05F4>>, <<\h0600, \h0605>>,
     <<\h0610, \h061A>>, <<\h061C, \h061C>>, <<\h0640, \h0640>>,
     <<\h064B, \h065F>>, <<\h0670, \h0670>>, <<\h06D6, \h06DD>>,
     <<\h06DF, \h06E8>>, <<\h06EA, \h06ED>>, <<\h070F, \h070F>>,
     <<\h0711, \h0711>>, <<\h0730, \h074A>>, <<\h07A6, \h07B0>>,
     <<\h07EB, \h07F5>>, <<\h07FA, \h07FA>>, <<\h07FD, \h07FD>>,
     <<\h0816, \h082D>>, <<\h0859, \h085B>>, <<\h0888, \h0888>>,
     <<\h0890, \h0891>>, <<\h0898, \h089F>>, <<\h08C9, \h0902>>,
     <<\h093A, \h093A>>, <<\h093C, \h093C>>, <<\h0941, \h0948>>,
     <<\h094D, \h094D>>, <<\h0951, \h0957>>, <<\h0962, \h0963>>,
     <<\h0971, \h0971>>, <<\h0981, \h0981>>, <<\h09BC, \h09BC>>,
     <<\h09C1, \h09C4>>, <<\h09CD, \h09CD>>, <<\h09E2, \h09E3>>,
     <<\h09FE, \h09FE>>, <<\h0A01, \h0A02>>, <<\h0A3C, \h0A3C>>,
     <<\h0A41, \h0A42>>, <<\h0A47, \h0A48>>, <<\h0A4B, \h0A4D>>,
     <<\h0A51, \h0A51>>, <<\h0A70, \h0A71>>, <<\h0A75, \h0A75>>,
     <<\h0A81, \h0A82>>, <<\h0ABC, \h0ABC>>, <<\h0AC1, \h0AC5>>,
     <<\h0AC7, \h0AC8>>, <<\h0ACD, \h0ACD>>, <<\h0AE2, \h0AE3>>,
     <<\h0AFA, \h0AFF>>, <<\h0B01, \h0B01>>, <<\h0B3C, \h0B3C>>,
     <<\h0B3F, \h0B3F>>, <<\h0B41, \h0B44>>, <<\h0B4D, \h0B4D>>,
     <<\h0B55, \h0B56>>, <<\h0B62, \h0B63>>, <<\h0B82, \h0B82>>,
     <<\h0BC0, \h0BC0>>, <<\h0BCD, \h0BCD>>, <<\h0C00, \h0C00>>,
     <<\h0C04, \h0C04>>, <<\h0C3C, \h0C3C>>, <<\h0C3E, \h0C40>>,
     <<\h0C46, \h0C48>>, <<\h0C4A, \h0C4D>>, <<\h0C55, \h0C56>>,
     <<\h0C62, \h0C63>>, <<\h0C81, \h0C81>>, <<\h0CBC, \h0CBC>>,
     <<\h0CBF, \h0CBF>>, <<\h0CC6, \h0CC6>>, <<\h0CCC, \h0CCD>>,
     <<\h0CE2, \h0CE3>>, <<\h0D00, \h0D01>>, <<\h0D3B, \h0D3C>>,
     <<\h0D41, \h0D44>>, <<\h0D4D, \h0D4D>>, <<\h0D62, \h0D63>>,
     <<\h0D81, \h0D81>>, <<\h0DCA, \h0DCA>>, <<\h0DD2, \h0DD4>>,
     <<\h0DD6, \h0DD6>>, <<\h0E31, \h0E31>>, <<\h0E34, \h0E3A>>,
     <<\h0E46, \h0E4E>>, <<\h0EB1, \h0EB1>>, <<\h0EB4, \h0EBC>>,
     <<\h0EC6, \h0EC6>>, <<\h0EC8, \h0ECD>>, <<\h0F18, \h0F19>>,
     <<\h0F35, \h0F35>>, <<\h0F37, \h0F37>>, <<\h0F39, \h0F39>>,
     <<\h0F71, \h0F7E>>, <<\h0F80, \h0F84>>, <<\h0F86, \h0F87>>,
     <<\h0F8D, \h0F97>>, <<\h0F99, \h0FBC>>, <<\h0FC6, \h0FC6>>,
     <<\h102D, \h1030>>, <<\h1032, \h1037>>, <<\h1039, \h103A>>,
     <<\h103D, \h103E>>, <<\h1058, \h1059>>, <<\h105E, \h1060>>,
     <<\h1071, \h1074>>, <<\h1082, \h1082>>, <<\h1085, \h1086>>,
     <<\h108D, \h108D>>, <<\h109D, \h109D>>, <<\h10FC, \h10FC>>,
     <<\h135D, \h135F>>, <<\h1712, \h1714>>, <<\h1732, \h1733>>,
     <<\h1752, \h1753>>, <<\h1772, \h1773>>, <<\h17B4, \h17B5>>,
     <<\h17B7, \h17BD>>, <<\h17C6, \h17C6>>, <<\h17C9, \h17D3>>,
     <<\h17D7, \h17D7>>, <<\h17DD, \h17DD>>, <<\h180B, \h180F>>,
     <<\h1843, \h1843>>, <<\h1885, \h1886>>, <<\h18A9, \h18A9>>,
     <<\h1920, \h1922>>, <<\h1927, \h1928>>, <<\h1932, \h1932>>,
     <<\h1939, \h193B>>, <<\h1A17, \h1A18>>, <<\h1A1B, \h1A1B>>,
     <<\h1A56, \h1A56>>, <<\h1A58, \h1A5E>>, <<\h1A60, \h1A60>>,
     <<\h1A62, \h1A62>>, <<\h1A65, \h1A6C>>, <<\h1A73, \h1A7C>>,
     <<\h1A7F, \h1A7F>>, <<\h1AA7, \h1AA7>>, <<\h1AB0, \h1ACE>>,
     <<\h1B00, \h1B03>>, <<\h1B34, \h1B34>>, <<\h1B36, \h1B3A>>,
     <<\h1B3C, \h1B3C>>, <<\h1B42, \h1B42>>, <<\h1B6B, \h1B73>>,
     <<\h1B80, \h1B81>>, <<\h1BA2, \h1BA5>>, <<\h1BA8, \h1BA9>>,
     <<\h1BAB, \h1BAD>>, <<\h1BE6, \h1BE6>>, <<\h1BE8, \h1BE9>>,
     <<\h1BED, \h1BED>>, <<\h1BEF, \h1BF1>>, <<\h1C2C, \h1C33>>,
     <<\h1C36, \h1C37>>, <<\h1C78, \h1C7D>>, <<\h1CD0, \h1CD2>>,
     <<\h1CD4, \h1CE0>>, <<\h1CE2, \h1CE8>>, <<\h1CED, \h1CED>>,
     <<\h1CF4, \h1CF4>>, <<\h1CF8, \h1CF9>>, <<\h1D2C, \h1D6A>>,
     <<\h1D78, \h1D78>>, <<\h1D9B, \h1DFF>>, <<\h1FBD, \h1FBD>>,
     <<\h1FBF, \h1FC1>>, <<\h1FCD, \h1FCF>>, <<\h1FDD, \h1FDF>>,
     <<\h1FED, \h1FEF>>, <<\h1FFD, \h1FFE>>, <<\h200B, \h200F>>,
     <<\h2018, \h2019>>, <<\h2024, \h2024>>, <<\h2027, \h2027>>,
     <<\h202A, \h202E>>, <<\h2060, \h2064>>, <<\h2066, \h206F>>,
     <<\h2071, \h2071>>, <<\h207F, \h207F>>, <<\h2090, \h209C>>,
     <<\h20D0, \h20F0>>, <<\h2C7C, \h2C7D>>, <<\h2CEF, \h2CF1>>,
     <<\h2D6F, \h2D6F>>, <<\h2D7F, \h2D7F>>, <<\h2DE0, \h2DFF>>,
     <<\h2E2F, \h2E2F>>, <<\h3005, \h3005>>, <<\h302A, \h302D>>,
     <<\h3031, \h3035>>, <<\h303B, \h303B>>, <<\h3099, \h309E>>,
     <<\h30FC, \h30FE>>, <<\hA015, \hA015>>, <<\hA4F8, \hA4FD>>,
     <<\hA60C, \hA60C>>, <<\hA66F, \hA672>>, <<\hA674, \hA67D>>,
     <<\hA67F, \hA67F>>, <<\hA69C, \hA69F>>, <<\hA6F0, \hA6F1>>,
     <<\hA700, \hA721>>, <<\hA770, \hA770>>, <<\hA788, \hA78A>>,
     <<\hA7F2, \hA7F4>>, <<\hA7F8, \hA7F9>>, <<\hA802, \hA802>>,
     <<\hA806, \hA806>>, <<\hA80B, \hA80B>>, <<\hA825, \hA826>>,
     <<\hA82C, \hA82C>>, <<\hA8C4, \hA8C5>>, <<\hA8E0, \hA8F1>>,
     <<\hA8FF, \hA8FF>>, <<\hA926, \hA92D>>, <<\hA947, \hA951>>,
     <<\hA980, \hA982>>, <<\hA9B3, \hA9B3>>, <<\hA9B6, \hA9B9>>,
     <<\hA9BC, \hA9BD>>, <<\hA9CF, \hA9CF>>, <<\hA9E5, \hA9E6>>,
     <<\hAA29, \hAA2E>>, <<\hAA31, \hAA32>>, <<\hAA35, \hAA36>>,
     <<\hAA43, \hAA43>>, <<\hAA4C, \hAA4C>>, <<\hAA70, \hAA70>>,
     <<\hAA7C, \hAA7C>>, <<\hAAB0, \hAAB0>>, <<\hAAB2, \hAAB4>>,
     <<\hAAB7, \hAAB8>>, <<\hAABE, \hAABF>>, <<\hAAC1, \hAAC1>>,
     <<\hAADD, \hAADD>>, <<\hAAEC, \hAAED>>, <<\hAAF3, \hAAF4>>,
     <<\hAAF6, \hAAF6>>, <<\hAB5B, \hAB5F>>, <<\hAB69, \hAB6B>>,
     <<\hABE5, \hABE5>>, <<\hABE8, \hABE8>>, <<\hABED, \hABED>>,
     <<\hFB1E, \hFB1E>>, <<\hFBB2, \hFBC2>>, <<\hFE00, \hFE0F>>,
     <<\hFE13, \hFE13>>, <<\hFE20, \hFE2F>>, <<\hFE52, \hFE52>>,
     <<\hFE55, \hFE55>>, <<\hFEFF, \hFEFF>>, <<\hFF07, \hFF07>>,
     <<\hFF0E, \hFF0E>>, <<\hFF1A, \hFF1A>>, <<\hFF3E, \hFF3E>>,
     <<\hFF40, \hFF40>>, <<\hFF70, \hFF70>>, <<\hFF9E, \hFF9F>>,
     <<\hFFE3, \hFFE3>>, <<\hFFF9, \hFFFB>>, <<\h101FD, \h101FD>>,
     <<\h102E0, \h102E0>>, <<\h10376, \h1037A>>, <<\h10780, \h10785>>,
     <<\h10787, \h107B0>>, <<\h107B2, \h107BA>>, <<\h10A01, \h10A03>>,
     <<\h10A05, \h10A06>>, <<\h10A0C, \h10A0F>>, <<\h10A38, \h10A3A>>,
     <<\h10A3F, \h10A3F>>, <<\h10AE5, \h10AE6>>, <<\h10D24, \h10D27>>,
     <<\h10EAB, \h10EAC>>, <<\h10F46, \h10F50>>, <<\h10F82, \h10F85>>,
     <<\h11001, \h11001>>, <<\h11038, \h11046>>, <<\h11070, \h11070>>,
     <<\h11073, \h11074>>, <<\h1107F, \h11081>>, <<\h110B3, \h110B6>>,
     <<\h110B9, \h110BA>>, <<\h110BD, \h110BD>>, <<\h110C2, \h110C2>>,
     <<\h110CD, \h110CD>>, <<\h11100, \h11102>>, <<\h11127, \h1112B>>,
     <<\h1112D, \h11134>>, <<\h11173, \h11173>>, <<\h11180, \h11181>>,
     <<\h111B6, \h111BE>>, <<\h111C9, \h111CC>>, <<\h111CF, \h111CF>>,
     <<\h1122F, \h11231>>, <<\h11234, \h11234>>, <<\h11236, \h11237>>,
     <<\h1123E, \h1123E>>, <<\h112DF, \h112DF>>, <<\h112E3, \h112EA>>,
     <<\h11300, \h11301>>, <<\h1133B, \h1133C>>, <<\h11340, \h11340>>,
     <<\h11366, \h1136C>>, <<\h11370, \h11374>>, <<\h11438, \h1143F>>,
     <<\h11442, \h11444>>, <<\h11446, \h11446>>, <<\h1145E, \h1145E>>,
     <<\h114B3, \h114B8>>, <<\h114BA, \h114BA>>, <<\h114BF, \h114C0>>,
     <<\h114C2, \h114C3>>, <<\h115B2, \h115B5>>, <<\h115BC, \h115BD>>,
     <<\h115BF, \h115C0>>, <<\h115DC, \h115DD>>, <<\h11633, \h1163A>>,
     <<\h1163D, \h1163D>>, <<\h1163F, \h11640>>, <<\h116AB, \h116AB>>,
     <<\h116AD, \h116AD>>, <<\h116B0, \h116B5>>, <<\h116B7, \h116B7>>,
     <<\h1171D, \h1171F>>, <<\h11722, \h11725>>, <<\h11727, \h1172B>>,
     <<\h1182F, \h11837>>, <<\h11839, \h1183A>>, <<\h1193B, \h1193C>>,
     <<\h1193E, \h1193E>>, <<\h11943, \h11943>>, <<\h119D4, \h119D7>>,
     <<\h119DA, \h119DB>>, <<\h119E0, \h119E0>>, <<\h11A01, \h11A0A>>,
     <<\h11A33, \h11A38>>, <<\h11A3B, \h11A3E>>, <<\h11A47, \h11A47>>,
     <<\h11A51, \h11A56>>, <<\h11A59, \h11A5B>>, <<\h11A8A, \h11A96>>,
     <<\h11A98, \h11A99>>, <<\h11C30, \h11C36>>, <<\h11C38, \h11C3D>>,
     <<\h11C3F, \h11C3F>>, <<\h11C92, \h11CA7>>, <<\h11CAA, \h11CB0>>,
     <<\h11CB2, \h11CB3>>, <<\h11CB5, \h11CB6>>, <<\h11D31, \h11D36>>,
     <<\h11D3A, \h11D3A>>, <<\h11D3C, \h11D3D>>, <<\h11D3F, \h11D45>>,
     <<\h11D47, \h11D47>>, <<\h11D90, \h11D91>>, <<\h11D95, \h11D95>>,
     <<\h11D97, \h11D97>>, <<\h11EF3, \h11EF4>>, <<\h13430, \h13438>>,
     <<\h16AF0, \h16AF4>>, <<\h16B30, \h16B36>>, <<\h16B40, \h16B43>>,
     <<\h16F4F, \h16F4F>>, <<\h16F8F, \h16F9F>>, <<\h16FE0, \h16FE1>>,
     <<\h16FE3, \h16FE4>>, <<\h1AFF0, \h1AFF3>>, <<\h1AFF5, \h1AFFB>>,
     <<\h1AFFD, \h1AFFE>>, <<\h1BC9D, \h1BC9E>>, <<\h1BCA0, \h1BCA3>>,
     <<\h1CF00, \h1CF2D>>, <<\h1CF30, \h1CF46>>, <<\h1D167, \h1D169>>,
     <<\h1D173, \h1D182>>, <<\h1D185, \h1D18B>>, <<\h1D1AA, \h1D1AD>>,
     <<\h1D242, \h1D244>>, <<\h1DA00, \h1DA36>>, <<\h1DA3B, \h1DA6C>>,
     <<\h1DA75, \h1DA75>>, <<\h1DA84, \h1DA84>>, <<\h1DA9B, \h1DA9F>>,
     <<\h1DAA1, \h1DAAF>>, <<\h1E000, \h1E006>>, <<\h1E008, \h1E018>>,
     <<\h1E01B, \h1E021>>, <<\h1E023, \h1E024>>, <<\h1E026, \h1E02A>>,
     <<\h1E130, \h1E13D>>, <<\h1E2AE, \h1E2AE>>, <<\h1E2EC, \h1E2EF>>,
     <<\h1E8D0, \h1E8D6>>, <<\h1E944, \h1E94B>>, <<\h1F3FB, \h1F3FF>>,
     <<\hE0001, \hE0001>>, <<\hE0020, \hE007F>>, <<\hE0100, \hE01EF>>}

CaseIgnorable ==
    {"'", ".", ":", "^", "U+0060", "¨", "­", "¯", "´", "·", "¸"}
    \cup CharsOf(CaseIgnorableRanges)

\* the capital sigma at position k ends a word: the nearest character before
\* it that is not skipped is cased, the nearest one after it is not
FinalSigma(s, k) ==
    LET before == {j \in 1..(k - 1) : s[j] \notin CaseIgnorable}
        after  == {j \in (k + 1)..Len(s) : s[j] \notin CaseIgnorable}
        prev   == CHOOSE j \in before : \A q \in before : q <= j
        next   == CHOOSE j \in after : \A q \in after : j <= q
    IN  /\ before # {}
        /\ s[prev] \in Cased
        /\ (after = {} \/ s[next] \notin Cased)

\* str.lower(): character by character, but for the capital sigma
RECURSIVE LowerFrom(_, _)
LowerFrom(s, k) ==
    IF k > Len(s) THEN <<>>
    ELSE (IF s[k] = "U+03A3" /\ FinalSigma(s, k) THEN <<"U+03C2">>
          ELSE LowerChar(s[k]))
         \o LowerFrom(s, k + 1)

Lower(s) == LowerFrom(s, 1)

\* lang.lower().replace("-", "_"), zh_hans abbreviated to zh
deepl_lang_to_suffix(lg) ==
    LET low == Lower(lg)
        s   == [k \in 1..Len(low) |-> IF low[k] = "-" THEN "_" ELSE low[k]]
    IN  IF s = <<"z", "h", "_", "h", "a", "n", "s">> THEN <<"z", "h">> ELSE s

\* the nested loops of collect_texts over the (object, field) pairs lo..hi,
\* in loop order (halved, so that long lists do not nest deeply)
RECURSIVE CollectRange(_, _, _, _)
CollectRange(os, fs, lo, hi) ==
    IF lo > hi THEN [positions |-> <<>>, texts |-> <<>>]
    ELSE IF lo = hi
    THEN LET idx == (lo - 1) \div Len(fs)
             f   == fs[((lo - 1) % Len(fs)) + 1]
             v   == Get(os[idx + 1], f)
             s   == Strip(v.val)
         IN  IF ~v.null /\ s # <<>>
             THEN [positions |-> << <<idx, f>> >>, texts |-> <<s>>]
             ELSE [positions |-> <<>>, texts |-> <<>>]
    ELSE LET mid   == (lo + hi) \div 2
             left  == CollectRange(os, fs, lo, mid)
             right == CollectRange(os, fs, mid + 1, hi)
         IN  [positions |-> left.positions \o right.positions,
              texts     |-> left.texts \o right.texts]

collect_texts(os, fs) == CollectRange(os, fs, 1, Len(os) * Len(fs))

\* new_key = f"{field_name}_{suffix}", or the field itself when overwriting
TargetKey(field_name, lg, mode) ==
    IF mode = "2" THEN field_name
    ELSE field_name \o <<"_">> \o deepl_lang_to_suffix(lg)

\* the assignments of the zip loop that fall on one object, in loop order:
\* ks lists the pairs (positions[k], translated_texts[k]) whose index is that
\* object's
RECURSIVE ApplyPairs(_, _, _, _, _, _)
ApplyPairs(obj, ks, pos, tr, lg, mode) ==
    IF ks = <<>> THEN obj
    ELSE ApplyPairs(Put(obj, TargetKey(pos[Head(ks)][2], lg, mode), tr[Head(ks)]),
                    Tail(ks), pos, tr, lg, mode)

\* the zip loop of apply_translations over the first m pairs: objs[idx][key] = t
\* for each pair (assignments to different objects do not interfere, so the
\* loop is taken object by object)
ApplyLoop(os, pos, tr, lg, mode, m) ==
    [j \in 1..Len(os) |->
        LET OnThis(k) == pos[k][1] = j - 1
        IN  ApplyPairs(os[j], SelectSeq([k \in 1..m |-> k], OnThis), pos, tr, lg, mode)]

Reverse(q) == [k \in 1..Len(q) |-> q[Len(q) + 1 - k]]

\* a walk that pairs the positions with the translations back to front
apply_translations_MutReversed(os, pos, tr, lg, mode) ==
    [objs   |-> ApplyLoop(os, pos, Reverse(tr), lg, mode, Min(Len(pos), Len(tr))),
     raised |-> Len(pos) # Len(tr)]

\* zip(positions, translated_texts, strict=True): the common prefix is
\* assigned, then a length difference raises ValueError
apply_translations(os, pos, tr, lg, mode) ==
    [objs   |-> ApplyLoop(os, pos, tr, lg, mode, Min(Len(pos), Len(tr))),
     raised |-> Len(pos) # Len(tr)]

\* the provider's answer to one text, and to one request
Translate(lg, s) == lg \o <<":">> \o s
Response(batch, lg) == [k \in 1..Len(batch) |-> Translate(lg, batch[k])]

\* what translate_batch can raise: requests.post fails, not resp.ok, the
\* body is no JSON, the JSON value is no object, "translations" has no
\* length, len(translations) != len(texts), a translation has no "text"
FailureKinds ==
    {"network", "status", "json", "payload", "length", "mismatch", "text"}

total == Len(texts)
lang == target_langs[lang_idx]

\* texts[i : i + BATCH_SIZE]
\* an off-by-one slice: every later batch starts on the previous batch's last text
BatchMutOverlap(ts, k) ==
    SubSeq(ts, IF k = 0 THEN 1 ELSE k, Min(k + BATCH_SIZE, Len(ts)))

Batch(ts, k) == SubSeq(ts, k + 1, Min(k + BATCH_SIZE, Len(ts)))

\* a delay that does not grow with the attempt
RetryDelayMutConstant(a) == base_sleep

\* time.sleep(base_sleep * attempt)
RetryDelay(a) == base_sleep * a

\* with_retries gives up on the first failure
RetriesExhaustedMutNoRetry(a) == a >= 1

\* if attempt == max_attempts: break
RetriesExhausted(a) == a = max_attempts

\* a retry that does not call the provider again
RequestsAfterMutSkip(c, a) == IF a = 1 THEN 1 ELSE c

\* with_retries calls fn() once in each pass of its loop
RequestsAfter(c, a) == IF a = 1 THEN 1 ELSE c + 1

\* load_objects, collect_texts, and the copy-through when nothing is collected
CollectTexts ==
    /\ jpc = "start"
    /\ LET c == collect_texts(objs, fields) IN
        /\ positions' = c.positions
        /\ texts' = c.texts
        /\ IF Len(c.texts) = 0
           THEN /\ output' = [written |-> TRUE, data |-> objs]
                /\ jpc' = "done"
                /\ UNCHANGED lang_idx
           ELSE /\ lang_idx' = 1
                /\ jpc' = "lang"
                /\ UNCHANGED output
    /\ UNCHANGED <<objs, fields, target_langs, output_mode, batch_i, translated_all,
                   attempt, last_err, err, calls, outcome, ret_attempt, last_sleep>>
    /\ UNCHANGED <<pvars, svars, mvars>>

\* for lang in target_langs: translated_all = []; the first with_retries starts
BeginLang ==
    /\ jpc = "lang"
    /\ lang_idx <= Len(target_langs)
    /\ translated_all' = <<>>
    /\ batch_i' = 0
    /\ attempt' = 1
    /\ last_err' = "none"
    /\ jpc' = "call"
    /\ UNCHANGED <<objs, fields, target_langs, output_mode, positions, texts, lang_idx,
                   err, calls, outcome, ret_attempt, last_sleep, output>>
    /\ UNCHANGED <<pvars, svars, mvars>>

\* translate_batch returns: with_retries returns it, the batch is appended,
\* time.sleep(0.5), and the loop goes to the next batch
CallOk ==
    /\ jpc = "call"
    /\ calls' = RequestsAfter(calls, attempt)
    /\ outcome' = "ok"
    /\ ret_attempt' = attempt
    /\ translated_all' = translated_all \o Response(Batch(texts, batch_i), lang)
    /\ last_sleep' = batch_sleep
    /\ batch_i' = batch_i + BATCH_SIZE
    /\ attempt' = 1
    /\ last_err' = "none"
    /\ jpc' = IF batch_i' < total THEN "call" ELSE "apply"
    /\ UNCHANGED <<objs, fields, target_langs, output_mode, positions, texts, lang_idx,
                   err, output>>
    /\ UNCHANGED <<pvars, svars, mvars>>

\* a failed request whose error handler saves what has been translated
CallFailMutSavePartial ==
    /\ jpc = "call"
    /\ \E kind \in FailureKinds :
        /\ outcome' = kind
        /\ last_err' = kind
    /\ calls' = RequestsAfter(calls, attempt)
    /\ IF RetriesExhausted(attempt)
       THEN /\ err' = last_err'
            /\ jpc' = "failed"
            /\ output' = [written |-> TRUE, data |-> objs]
            /\ UNCHANGED <<attempt, last_sleep>>
       ELSE /\ last_sleep' = RetryDelay(attempt)
            /\ attempt' = attempt + 1
            /\ UNCHANGED <<err, jpc, output>>
    /\ UNCHANGED <<objs, fields, target_langs, output_mode, positions, texts, lang_idx,
                   batch_i, translated_all, ret_attempt>>
    /\ UNCHANGED <<pvars, svars, mvars>>

\* translate_batch raises: with_retries sleeps and tries again, or re-raises
\* after the last attempt
CallFail ==
    /\ jpc = "call"
    /\ \E kind \in FailureKinds :
        /\ outcome' = kind
        /\ last_err' = kind
    /\ calls' = RequestsAfter(calls, attempt)
    /\ IF RetriesExhausted(attempt)
       THEN /\ err' = last_err'
            /\ jpc' = "failed"
            /\ UNCHANGED <<attempt, last_sleep>>
       ELSE /\ last_sleep' = RetryDelay(attempt)
            /\ attempt' = attempt + 1
            /\ UNCHANGED <<err, jpc>>
    /\ UNCHANGED <<objs, fields, target_langs, output_mode, positions, texts, lang_idx,
                   batch_i, translated_all, ret_attempt, output>>
    /\ UNCHANGED <<pvars, svars, mvars>>

\* apply_translations(objs, positions, translated_all, lang=lang, ...)
ApplyTranslations ==
    /\ jpc = "apply"
    /\ LET r == apply_translations(objs, positions, translated_all, lang, output_mode) IN
        /\ objs' = r.objs
        /\ IF r.raised
           THEN /\ err' = "ValueError"
                /\ jpc' = "failed"
                /\ UNCHANGED lang_idx
           ELSE /\ lang_idx' = lang_idx + 1
                /\ jpc' = "lang"
                /\ UNCHANGED err
    /\ UNCHANGED <<fields, target_langs, output_mode, positions, texts, batch_i,
                   translated_all, attempt, last_err, calls, outcome, ret_attempt,
                   last_sleep, output>>
    /\ UNCHANGED <<pvars, svars, mvars>>

\* after the last language: output_path.write_text(...)
WriteOutput ==
    /\ jpc = "lang"
    /\ lang_idx > Len(target_langs)
    /\ output' = [written |-> TRUE, data |-> objs]
    /\ jpc' = "done"
    /\ UNCHANGED <<objs, fields, target_langs, output_mode, positions, texts, lang_idx,
                   batch_i, translated_all, attempt, last_err, err, calls, outcome,
                   ret_attempt, last_sleep>>
    /\ UNCHANGED <<pvars, svars, mvars>>

\* The inputs of translate_objects_file.

NameF == <<"name">>
DescF == <<"description">>

ObjKinds ==
    { (NameF :> Str(<<"x">>)) @@ (DescF :> Str(<<" ", "y", " ">>)),
      (NameF :> Str(<<"x">>)),
      (NameF :> Str(<<" ">>)) @@ (DescF :> Str(<<"x">>)),
      (NameF :> Null) @@ (DescF :> Str(<<"z", " ", "z">>)) }

\* m objects, each with its own text under "name"
Sentinels(m) == [k \in 1..m |-> (NameF :> Str(<<"s", ToString(k)>>))]

FieldLists == {<<NameF>>, <<NameF, DescF>>, <<DescF, NameF>>, <<NameF, NameF>>}
LangLists ==
    { << <<"E", "N">> >>,
      << <<"P", "T", "-", "B", "R">>, <<"Z", "H", "-", "H", "A", "N", "S">> >> }

ParseIdle ==
    /\ src = <<>> /\ sql_fragment = <<>> /\ i = 0
    /\ in_tuple = FALSE /\ in_str = FALSE
    /\ current = <<>> /\ token = <<>> /\ tuples = <<>>
    /\ ppc = "idle"

InitObjects ==
    /\ \/ objs \in SeqsUpTo(ObjKinds, MaxObjs) /\ fields \in FieldLists
       \/ /\ objs \in {Sentinels(m) : m \in (BATCH_SIZE - 1)..MaxBigObjs}
          /\ fields = <<NameF>>
    /\ target_langs \in LangLists
    /\ output_mode \in {"1", "2"}
    /\ positions = <<>> /\ texts = <<>> /\ lang_idx = 0 /\ batch_i = 0
    /\ translated_all = <<>> /\ attempt = 0 /\ last_err = "none" /\ err = "none"
    /\ calls = 0 /\ outcome = "none" /\ ret_attempt = 0 /\ last_sleep = 0
    /\ output = [written |-> FALSE, data |-> <<>>]
    /\ jpc = "start"
    /\ ParseIdle
    /\ SqlIdle
    /\ MultiIdle

NextObjects ==
    \/ CollectTexts
    \/ BeginLang
    \/ CallOk
    \/ CallFail
    \/ ApplyTranslations
    \/ WriteOutput

SpecObjects == InitObjects /\ [][NextObjects]_vars

----------------------------------------------------------------------------
\* Claims about translate_objects_file.

Failed == jpc = "failed"
\* with_retries has just returned a batch
JustReturned == jpc \in {"call", "apply"} /\ attempt = 1 /\ outcome = "ok"

\* C6, the states: an error leaves with_retries only after max_attempts
\* failed requests, it is the failure of the last one, and nothing runs after
\* it; a return after k failures carries the batch's translations
C6_RetryStates ==
    /\ (Failed /\ err \in FailureKinds) =>
          /\ attempt = max_attempts
          /\ calls = max_attempts
          /\ err = outcome
          /\ ~output.written
    /\ JustReturned =>
          /\ ret_attempt \in 1..max_attempts
          /\ calls = ret_attempt
          /\ err = "none"
          /\ translated_all = Response(SubSeq(texts, 1, Min(batch_i, total)), lang)

\* C6, the steps: a request that succeeds on attempt k+1 <= max_attempts is
\* returned (appended for the caller) and raises nothing; after the raise
\* the run takes no further step
C6_RetryStep ==
    /\ (jpc = "call" /\ outcome' = "ok") =>
          /\ attempt \in 1..max_attempts
          /\ ret_attempt' = attempt
          /\ translated_all' = translated_all \o Response(Batch(texts, batch_i), lang)
          /\ err' = "none" /\ jpc' # "failed"
    /\ ~Failed

\* C6: a call that fails k < max_attempts times and then succeeds is returned
\* by with_retries with no error reaching the caller; a call that fails on
\* every attempt up to max_attempts raises the last failure and the
\* processing of the locale stops.
C6_RetryOutcome ==
    [](C6_RetryStates) /\ [][C6_RetryStep]_vars

\* two failures, then success on the third attempt
C6_Witness ==
    /\ JustReturned
    /\ ret_attempt = 3 /\ calls = 3
    /\ err = "none"
    /\ Len(translated_all) > 0

\* the translations of `lg` are in place on the objects
Placed(lg) ==
    /\ Len(translated_all) = Len(positions)
    /\ \A k \in 1..Len(positions) :
        /\ translated_all[k] = Translate(lg, texts[k])
        /\ Get(objs[positions[k][1] + 1], TargetKey(positions[k][2], lg, output_mode))
             = Str(translated_all[k])

\* C8: positions and texts are built in the same order (the k-th text is the
\* stripped value of the k-th position's record and attribute); after a
\* locale's batches the translation of the k-th text is stored on the record
\* and attribute of the k-th position, also for identical texts; lists of
\* different lengths make apply_translations raise.
C8_PositionsPreserved ==
    /\ (jpc = "lang" /\ lang_idx = 1) =>
          /\ Len(positions) = Len(texts)
          /\ \A k \in 1..Len(positions) :
                LET v == Get(objs[positions[k][1] + 1], positions[k][2])
                IN  ~v.null /\ texts[k] = Strip(v.val)
    /\ (jpc = "lang" /\ lang_idx > 1) => Placed(target_langs[lang_idx - 1])
    /\ jpc = "apply" =>
          /\ apply_translations(objs, positions,
                 SubSeq(translated_all, 1, Len(translated_all) - 1),
                 lang, output_mode).raised
          /\ apply_translations(objs, positions,
                 Append(translated_all, <<"x">>), lang, output_mode).raised
          /\ ~apply_translations(objs, positions, translated_all,
                 lang, output_mode).raised

\* two records hold the same text, a third text differs, and each got its own
C8_Witness ==
    /\ jpc = "lang" /\ lang_idx > 1
    /\ Placed(target_langs[lang_idx - 1])
    /\ \E k, j, m \in 1..Len(positions) :
        /\ k < j
        /\ texts[k] = texts[j]
        /\ positions[k][1] # positions[j][1]
        /\ texts[m] # texts[k]

\* C9: the batches are consecutive slices of at most BATCH_SIZE texts whose
\* concatenation is the text list (what has been translated so far is the
\* translation of exactly the first min(i, total) texts, and of all of them
\* once the loop ends), and the provider is requested once per attempt.
C9_BatchesPartition ==
    /\ jpc = "call" =>
          /\ batch_i < total
          /\ Len(Batch(texts, batch_i)) \in 1..BATCH_SIZE
          /\ translated_all = Response(SubSeq(texts, 1, batch_i), lang)
          /\ attempt > 1 => calls = attempt - 1
    /\ jpc = "apply" =>
          /\ batch_i >= total
          /\ translated_all = Response(texts, lang)
    /\ JustReturned => calls = ret_attempt
    /\ (Failed /\ err \in FailureKinds) => calls = attempt

\* 101 texts went out in three batches, the last one on its second attempt
C9_Witness ==
    /\ jpc = "apply"
    /\ total = 2 * BATCH_SIZE + 1
    /\ batch_i = 3 * BATCH_SIZE
    /\ ret_attempt = 2 /\ calls = 2
    /\ translated_all = Response(texts, lang)

----------------------------------------------------------------------------
\* main of translate_checklist_items.py and main of generate_sql.py: the
\* row loop, the locale loop, the provider calls and the output rows.

\* TARGETS: (locale in the database, DeepL target); the same list in both
TARGETS ==
    << <<"es", "ES">>, <<"en", "EN-US">>, <<"pt", "PT-BR">>, <<"it", "IT">>,
       <<"de", "DE">>, <<"fr", "FR">>, <<"ko", "KO">>, <<"zh", "ZH-HANS">> >>

IDX_LABEL == 1
IDX_PLACEHOLDER == 4
IDX_DESCRIPTION == 5
IDX_TEMPLATE_ITEM_ID == 11

\* the decimal digits int() reads: 0-9 and the digits of every other script,
\* each a run of ten code points in the order of their values; DigitZeros
\* are the zeros of these runs
ASCIIDigits == <<"0", "1", "2", "3", "4", "5", "6", "7", "8", "9">>

DigitZeros ==
    {\h0660, \h06F0, \h07C0, \h0966, \h09E6, \h0A66, \h0AE6, \h0B66, \h0BE6,
     \h0C66, \h0CE6, \h0D66, \h0DE6, \h0E50, \h0ED0, \h0F20, \h1040, \h1090,
     \h17E0, \h1810, \h1946, \h19D0, \h1A80, \h1A90, \h1B50, \h1BB0, \h1C40,
     \h1C50, \hA620, \hA8D0, \hA900, \hA9D0, \hA9F0, \hAA50, \hABF0, \hFF10,
     \h104A0, \h10D30, \h11066, \h110F0, \h11136, \h111D0, \h112F0, \h11450,
     \h114D0, \h11650, \h116C0, \h11730, \h118E0, \h11950, \h11C50, \h11D50,
     \h11DA0, \h16A60, \h16AC0, \h16B50, \h1D7CE, \h1D7D8, \h1D7E2, \h1D7EC,
     \h1D7F6, \h1E140, \h1E2F0, \h1E950, \h1FBF0}

DigitsOf(d) == {ASCIIDigits[d + 1]} \cup {CodePoint(z + d) : z \in DigitZeros}

\* the digits of value 0, 1, ... 9
DigitsByValue ==
    <<DigitsOf(0), DigitsOf(1), DigitsOf(2), DigitsOf(3), DigitsOf(4),
      DigitsOf(5), DigitsOf(6), DigitsOf(7), DigitsOf(8), DigitsOf(9)>>

Digits == UNION {DigitsByValue[k] : k \in 1..10}

DigitValue(c) == (CHOOSE k \in 1..10 : c \in DigitsByValue[k]) - 1

RECURSIVE DecimalValue(_)
DecimalValue(s) ==
    IF s = <<>> THEN 0
    ELSE 10 * DecimalValue(SubSeq(s, 1, Len(s) - 1)) + DigitValue(s[Len(s)])

\* the longest digit string int() converts (sys.int_max_str_digits)
int_max_str_digits == 4300

\* what int() accepts after the sign: decimal digits, single underscores
\* between digits, no more than int_max_str_digits digits
IsIntBody(b) ==
    /\ b # <<>>
    /\ \A k \in 1..Len(b) : b[k] \in Digits \cup {"_"}
    /\ b[1] # "_" /\ b[Len(b)] # "_"
    /\ \A k \in 1..Len(b) - 1 : ~(b[k] = "_" /\ b[k + 1] = "_")
    /\ Cardinality({k \in 1..Len(b) : b[k] # "_"}) <= int_max_str_digits

\* the whitespace int() skips around the number: \x1c .. \x1f are not in it
IntSpace == WhiteSpace \ {"", "", "", ""}

RECURSIVE IntLStrip(_)
IntLStrip(s) ==
    IF s # <<>> /\ Head(s) \in IntSpace THEN IntLStrip(Tail(s)) ELSE s

RECURSIVE IntRStrip(_)
IntRStrip(s) ==
    IF s # <<>> /\ s[Len(s)] \in IntSpace
    THEN IntRStrip(SubSeq(s, 1, Len(s) - 1)) ELSE s

\* as_int: None for None and for what int() rejects; int() takes outer
\* whitespace, one sign, underscores between the digits, and no more than
\* int_max_str_digits digits
as_int(value) ==
    LET t      == IntRStrip(IntLStrip(value.val))
        signed == t # <<>> /\ t[1] \in {"+", "-"}
        body   == IF signed THEN Tail(t) ELSE t
        digits == SelectSeq(body, LAMBDA c : c # "_")
    IN  IF value.null \/ ~IsIntBody(body)
        THEN [none |-> TRUE, n |-> 0]
        ELSE [none |-> FALSE,
              n |-> IF signed /\ t[1] = "-" THEN 0 - DecimalValue(digits)
                    ELSE DecimalValue(digits)]

\* normalize: None for None and for a blank string, else the stripped string
normalize(f) ==
    IF f.null \/ Strip(f.val) = <<>> THEN Null ELSE Str(Strip(f.val))

\* row[idx], idx 0-based as in the code
At(row, idx) == row[idx + 1]

\* checklist: the row is long enough, its id parses, its label is not blank
ChecklistAccepted(row) ==
    /\ ~(Len(row) <= IDX_TEMPLATE_ITEM_ID)
    /\ ~as_int(At(row, IDX_TEMPLATE_ITEM_ID)).none
    /\ ~normalize(At(row, IDX_LABEL)).null

\* a record whose empty description is translated as an empty text
ChecklistBaseMutNoFallback(row) ==
    [id          |-> as_int(At(row, IDX_TEMPLATE_ITEM_ID)).n,
     label       |-> normalize(At(row, IDX_LABEL)),
     description |-> Str(normalize(At(row, IDX_DESCRIPTION)).val),
     placeholder |-> normalize(At(row, IDX_PLACEHOLDER))]

\* checklist: id and the base values, description falling back to the label
ChecklistBase(row) ==
    LET label == normalize(At(row, IDX_LABEL))
        desc  == normalize(At(row, IDX_DESCRIPTION))
    IN  [id          |-> as_int(At(row, IDX_TEMPLATE_ITEM_ID)).n,
         label       |-> label,
         description |-> IF desc.null THEN label ELSE desc,
         placeholder |-> normalize(At(row, IDX_PLACEHOLDER))]

\* generate: subgroup_id is an int (a bool is one), subgroup_name a
\* non-blank str
GenerateAccepted(obj) ==
    /\ obj.subgroup_id.int
    /\ ~obj.subgroup_name.null
    /\ Strip(obj.subgroup_name.val) # <<>>

Accepted(rec) ==
    IF script = "checklist" THEN ChecklistAccepted(rec) ELSE GenerateAccepted(rec)

\* the provider's raw answer for one text, and what translate_text /
\* translate_all return: str(res).strip()
ProviderText(target, text) ==
    IF target = blank_target THEN <<" ">>
    ELSE <<" ">> \o Translate(<<target>>, text)

translate_text(text, target) == Strip(ProviderText(target, text))

\* "NULL" if not placeholder else f"'{sql_escape(placeholder)}'"
PlaceholderSql(ph) ==
    IF ph.null \/ ph.val = <<>> THEN NULLWord
    ELSE RenderField([quoted |-> TRUE, text |-> ph.val])

Quoted(text) == RenderField([quoted |-> TRUE, text |-> text])

\* the row of one locale in translate_checklist_items.main
ChecklistRow(base, locale_db, deepl_target) ==
    IF locale_db = "es"
    THEN [id |-> base.id, locale |-> locale_db,
          label       |-> Quoted(base.label.val),
          description |-> Quoted(base.description.val),
          placeholder |-> PlaceholderSql(base.placeholder)]
    ELSE [id |-> base.id, locale |-> locale_db,
          label       |-> Quoted(translate_text(base.label.val, deepl_target)),
          description |-> Quoted(translate_text(base.description.val, deepl_target)),
          placeholder |->
              IF base.placeholder.null THEN NULLWord
              ELSE PlaceholderSql(Str(translate_text(base.placeholder.val, deepl_target)))]

\* the text of one locale in generate_sql.main
GenerateText(obj, locale_db, deepl_target) ==
    IF locale_db = "es" THEN Strip(obj.subgroup_name.val)
    ELSE translate_text(Strip(obj.subgroup_name.val), deepl_target)

\* the id column of a generated row, f"({subgroup_id}, ...": a bool prints
\* as True or False, an int as its digits
GenerateId(obj) == [bool |-> obj.subgroup_id.bool, n |-> obj.subgroup_id.n]

\* the rows one locale adds to values_sql
LocaleRows(rec, locale_db, deepl_target) ==
    IF script = "checklist"
    THEN << ChecklistRow(ChecklistBase(rec), locale_db, deepl_target) >>
    ELSE LET text == GenerateText(rec, locale_db, deepl_target)
         IN  IF text # <<>>
             THEN << [id |-> GenerateId(rec), locale |-> locale_db,
                      text |-> Quoted(text)] >>
             ELSE <<>>

\* the texts sent to the provider in one translated locale of one row, in
\* the order of the requests
CallTexts(rec) ==
    IF script = "checklist"
    THEN LET base == ChecklistBase(rec)
         IN  <<base.label.val, base.description.val>>
             \o (IF base.placeholder.null THEN <<>> ELSE <<base.placeholder.val>>)
    ELSE <<Strip(rec.subgroup_name.val)>>

\* provider requests in one translated locale of one row
NCalls(rec) == Len(CallTexts(rec))

\* values_sql.append(...)
RowsAppend(rows, new) == rows \o new

locale_db == TARGETS[loc_idx][1]
deepl_target == TARGETS[loc_idx][2]

\* the locale loop moves on, and after the last locale the row loop does
NextLocale ==
    IF loc_idx = Len(TARGETS)
    THEN rec_idx' = rec_idx + 1 /\ loc_idx' = 1
    ELSE loc_idx' = loc_idx + 1 /\ UNCHANGED rec_idx

InLoop == spc = "loop" /\ rec_idx <= Len(all_rows)

VALUESWord == <<"V", "A", "L", "U", "E", "S">>

\* the word characters (\w of a str pattern): the alphanumeric characters
\* and "_"
WordRanges ==
    {<<\h0100, \h02C1>>, <<\h02C6, \h02D1>>, <<\h02E0, \h02E4>>,
     <<\h02EC, \h02EC>>, <<\h02EE, \h02EE>>, <<\h0370, \h0374>>,
     <<\h0376, \h0377>>, <<\h037A, \h037D>>, <<\h037F, \h037F>>,
     <<\h0386, \h0386>>, <<\h0388, \h038A>>, <<\h038C, \h038C>>,
     <<\h038E, \h03A1>>, <<\h03A3, \h03F5>>, <<\h03F7, \h0481>>,
     <<\h048A, \h052F>>, <<\h0531, \h0556>>, <<\h0559, \h0559>>,
     <<\h0560, \h0588>>, <<\h05D0, \h05EA>>, <<\h05EF, \h05F2>>,
     <<\h0620, \h064A>>, <<\h0660, \h0669>>, <<\h066E, \h066F>>,
     <<\h0671, \h06D3>>, <<\h06D5, \h06D5>>, <<\h06E5, \h06E6>>,
     <<\h06EE, \h06FC>>, <<\h06FF, \h06FF>>, <<\h0710, \h0710>>,
     <<\h0712, \h072F>>, <<\h074D, \h07A5>>, <<\h07B1, \h07B1>>,
     <<\h07C0, \h07EA>>, <<\h07F4, \h07F5>>, <<\h07FA, \h07FA>>,
     <<\h0800, \h0815>>, <<\h081A, \h081A>>, <<\h0824, \h0824>>,
     <<\h0828, \h0828>>, <<\h0840, \h0858>>, <<\h0860, \h086A>>,
     <<\h0870, \h0887>>, <<\h0889, \h088E>>, <<\h08A0, \h08C9>>,
     <<\h0904, \h0939>>, <<\h093D, \h093D>>, <<\h0950, \h0950>>,
     <<\h0958, \h0961>>, <<\h0966, \h096F>>, <<\h0971, \h0980>>,
     <<\h0985, \h098C>>, <<\h098F, \h0990>>, <<\h0993, \h09A8>>,
     <<\h09AA, \h09B0>>, <<\h09B2, \h09B2>>, <<\h09B6, \h09B9>>,
     <<\h09BD, \h09BD>>, <<\h09CE, \h09CE>>, <<\h09DC, \h09DD>>,
     <<\h09DF, \h09E1>>, <<\h09E6, \h09F1>>, <<\h09F4, \h09F9>>,
     <<\h09FC, \h09FC>>, <<\h0A05, \h0A0A>>, <<\h0A0F, \h0A10>>,
     <<\h0A13, \h0A28>>, <<\h0A2A, \h0A30>>, <<\h0A32, \h0A33>>,
     <<\h0A35, \h0A36>>, <<\h0A38, \h0A39>>, <<\h0A59, \h0A5C>>,
     <<\h0A5E, \h0A5E>>, <<\h0A66, \h0A6F>>, <<\h0A72, \h0A74>>,
     <<\h0A85, \h0A8D>>, <<\h0A8F, \h0A91>>, <<\h0A93, \h0AA8>>,
     <<\h0AAA, \h0AB0>>, <<\h0AB2, \h0AB3>>, <<\h0AB5, \h0AB9>>,
     <<\h0ABD, \h0ABD>>, <<\h0AD0, \h0AD0>>, <<\h0AE0, \h0AE1>>,
     <<\h0AE6, \h0AEF>>, <<\h0AF9, \h0AF9>>, <<\h0B05, \h0B0C>>,
     <<\h0B0F, \h0B10>>, <<\h0B13, \h0B28>>, <<\h0B2A, \h0B30>>,
     <<\h0B32, \h0B33>>, <<\h0B35, \h0B39>>, <<\h0B3D, \h0B3D>>,
     <<\h0B5C, \h0B5D>>, <<\h0B5F, \h0B61>>, <<\h0B66, \h0B6F>>,
     <<\h0B71, \h0B77>>, <<\h0B83, \h0B83>>, <<\h0B85, \h0B8A>>,
     <<\h0B8E, \h0B90>>, <<\h0B92, \h0B95>>, <<\h0B99, \h0B9A>>,
     <<\h0B9C, \h0B9C>>, <<\h0B9E, \h0B9F>>, <<\h0BA3, \h0BA4>>,
     <<\h0BA8, \h0BAA>>, <<\h0BAE, \h0BB9>>, <<\h0BD0, \h0BD0>>,
     <<\h0BE6, \h0BF2>>, <<\h0C05, \h0C0C>>, <<\h0C0E, \h0C10>>,
     <<\h0C12, \h0C28>>, <<\h0C2A, \h0C39>>, <<\h0C3D, \h0C3D>>,
     <<\h0C58, \h0C5A>>, <<\h0C5D, \h0C5D>>, <<\h0C60, \h0C61>>,
     <<\h0C66, \h0C6F>>, <<\h0C78, \h0C7E>>, <<\h0C80, \h0C80>>,
     <<\h0C85, \h0C8C>>, <<\h0C8E, \h0C90>>, <<\h0C92, \h0CA8>>,
     <<\h0CAA, \h0CB3>>, <<\h0CB5, \h0CB9>>, <<\h0CBD, \h0CBD>>,
     <<\h0CDD, \h0CDE>>, <<\h0CE0, \h0CE1>>, <<\h0CE6, \h0CEF>>,
     <<\h0CF1, \h0CF2>>, <<\h0D04, \h0D0C>>, <<\h0D0E, \h0D10>>,
     <<\h0D12, \h0D3A>>, <<\h0D3D, \h0D3D>>, <<\h0D4E, \h0D4E>>,
     <<\h0D54, \h0D56>>, <<\h0D58, \h0D61>>, <<\h0D66, \h0D78>>,
     <<\h0D7A, \h0D7F>>, <<\h0D85, \h0D96>>, <<\h0D9A, \h0DB1>>,
     <<\h0DB3, \h0DBB>>, <<\h0DBD, \h0DBD>>, <<\h0DC0, \h0DC6>>,
     <<\h0DE6, \h0DEF>>, <<\h0E01, \h0E30>>, <<\h0E32, \h0E33>>,
     <<\h0E40, \h0E46>>, <<\h0E50, \h0E59>>, <<\h0E81, \h0E82>>,
     <<\h0E84, \h0E84>>, <<\h0E86, \h0E8A>>, <<\h0E8C, \h0EA3>>,
     <<\h0EA5, \h0EA5>>, <<\h0EA7, \h0EB0>>, <<\h0EB2, \h0EB3>>,
     <<\h0EBD, \h0EBD>>, <<\h0EC0, \h0EC4>>, <<\h0EC6, \h0EC6>>,
     <<\h0ED0, \h0ED9>>, <<\h0EDC, \h0EDF>>, <<\h0F00, \h0F00>>,
     <<\h0F20, \h0F33>>, <<\h0F40, \h0F47>>, <<\h0F49, \h0F6C>>,
     <<\h0F88, \h0F8C>>, <<\h1000, \h102A>>, <<\h103F, \h1049>>,
     <<\h1050, \h1055>>, <<\h105A, \h105D>>, <<\h1061, \h1061>>,
     <<\h1065, \h1066>>, <<\h106E, \h1070>>, <<\h1075, \h1081>>,
     <<\h108E, \h108E>>, <<\h1090, \h1099>>, <<\h10A0, \h10C5>>,
     <<\h10C7, \h10C7>>, <<\h10CD, \h10CD>>, <<\h10D0, \h10FA>>,
     <<\h10FC, \h1248>>, <<\h124A, \h124D>>, <<\h1250, \h1256>>,
     <<\h1258, \h1258>>, <<\h125A, \h125D>>, <<\h1260, \h1288>>,
     <<\h128A, \h128D>>, <<\h1290, \h12B0>>, <<\h12B2, \h12B5>>,
     <<\h12B8, \h12BE>>, <<\h12C0, \h12C0>>, <<\h12C2, \h12C5>>,
     <<\h12C8, \h12D6>>, <<\h12D8, \h1310>>, <<\h1312, \h1315>>,
     <<\h1318, \h135A>>, <<\h1369, \h137C>>, <<\h1380, \h138F>>,
     <<\h13A0, \h13F5>>, <<\h13F8, \h13FD>>, <<\h1401, \h166C>>,
     <<\h166F, \h167F>>, <<\h1681, \h169A>>, <<\h16A0, \h16EA>>,
     <<\h16EE, \h16F8>>, <<\h1700, \h1711>>, <<\h171F, \h1731>>,
     <<\h1740, \h1751>>, <<\h1760, \h176C>>, <<\h176E, \h1770>>,
     <<\h1780, \h17B3>>, <<\h17D7, \h17D7>>, <<\h17DC, \h17DC>>,
     <<\h17E0, \h17E9>>, <<\h17F0, \h17F9>>, <<\h1810, \h1819>>,
     <<\h1820, \h1878>>, <<\h1880, \h1884>>, <<\h1887, \h18A8>>,
     <<\h18AA, \h18AA>>, <<\h18B0, \h18F5>>, <<\h1900, \h191E>>,
     <<\h1946, \h196D>>, <<\h1970, \h1974>>, <<\h1980, \h19AB>>,
     <<\h19B0, \h19C9>>, <<\h19D0, \h19DA>>, <<\h1A00, \h1A16>>,
     <<\h1A20, \h1A54>>, <<\h1A80, \h1A89>>, <<\h1A90, \h1A99>>,
     <<\h1AA7, \h1AA7>>, <<\h1B05, \h1B33>>, <<\h1B45, \h1B4C>>,
     <<\h1B50, \h1B59>>, <<\h1B83, \h1BA0>>, <<\h1BAE, \h1BE5>>,
     <<\h1C00, \h1C23>>, <<\h1C40, \h1C49>>, <<\h1C4D, \h1C7D>>,
     <<\h1C80, \h1C88>>, <<\h1C90, \h1CBA>>, <<\h1CBD, \h1CBF>>,
     <<\h1CE9, \h1CEC>>, <<\h1CEE, \h1CF3>>, <<\h1CF5, \h1CF6>>,
     <<\h1CFA, \h1CFA>>, <<\h1D00, \h1DBF>>, <<\h1E00, \h1F15>>,
     <<\h1F18, \h1F1D>>, <<\h1F20, \h1F45>>, <<\h1F48, \h1F4D>>,
     <<\h1F50, \h1F57>>, <<\h1F59, \h1F59>>, <<\h1F5B, \h1F5B>>,
     <<\h1F5D, \h1F5D>>, <<\h1F5F, \h1F7D>>, <<\h1F80, \h1FB4>>,
     <<\h1FB6, \h1FBC>>, <<\h1FBE, \h1FBE>>, <<\h1FC2, \h1FC4>>,
     <<\h1FC6, \h1FCC>>, <<\h1FD0, \h1FD3>>, <<\h1FD6, \h1FDB>>,
     <<\h1FE0, \h1FEC>>, <<\h1FF2, \h1FF4>>, <<\h1FF6, \h1FFC>>,
     <<\h2070, \h2071>>, <<\h2074, \h2079>>, <<\h207F, \h2089>>,
     <<\h2090, \h209C>>, <<\h2102, \h2102>>, <<\h2107, \h2107>>,
     <<\h210A, \h2113>>, <<\h2115, \h2115>>, <<\h2119, \h211D>>,
     <<\h2124, \h2124>>, <<\h2126, \h2126>>, <<\h2128, \h2128>>,
     <<\h212A, \h212D>>, <<\h212F, \h2139>>, <<\h213C, \h213F>>,
     <<\h2145, \h2149>>, <<\h214E, \h214E>>, <<\h2150, \h2189>>,
     <<\h2460, \h249B>>, <<\h24EA, \h24FF>>, <<\h2776, \h2793>>,
     <<\h2C00, \h2CE4>>, <<\h2CEB, \h2CEE>>, <<\h2CF2, \h2CF3>>,
     <<\h2CFD, \h2CFD>>, <<\h2D00, \h2D25>>, <<\h2D27, \h2D27>>,
     <<\h2D2D, \h2D2D>>, <<\h2D30, \h2D67>>, <<\h2D6F, \h2D6F>>,
     <<\h2D80, \h2D96>>, <<\h2DA0, \h2DA6>>, <<\h2DA8, \h2DAE>>,
     <<\h2DB0, \h2DB6>>, <<\h2DB8, \h2DBE>>, <<\h2DC0, \h2DC6>>,
     <<\h2DC8, \h2DCE>>, <<\h2DD0, \h2DD6>>, <<\h2DD8, \h2DDE>>,
     <<\h2E2F, \h2E2F>>, <<\h3005, \h3007>>, <<\h3021, \h3029>>,
     <<\h3031, \h3035>>, <<\h3038, \h303C>>, <<\h3041, \h3096>>,
     <<\h309D, \h309F>>, <<\h30A1, \h30FA>>, <<\h30FC, \h30FF>>,
     <<\h3105, \h312F>>, <<\h3131, \h318E>>, <<\h3192, \h3195>>,
     <<\h31A0, \h31BF>>, <<\h31F0, \h31FF>>, <<\h3220, \h3229>>,
     <<\h3248, \h324F>>, <<\h3251, \h325F>>, <<\h3280, \h3289>>,
     <<\h32B1, \h32BF>>, <<\h3400, \h4DBF>>, <<\h4E00, \hA48C>>,
     <<\hA4D0, \hA4FD>>, <<\hA500, \hA60C>>, <<\hA610, \hA62B>>,
     <<\hA640, \hA66E>>, <<\hA67F, \hA69D>>, <<\hA6A0, \hA6EF>>,
     <<\hA717, \hA71F>>, <<\hA722, \hA788>>, <<\hA78B, \hA7CA>>,
     <<\hA7D0, \hA7D1>>, <<\hA7D3, \hA7D3>>, <<\hA7D5, \hA7D9>>,
     <<\hA7F2, \hA801>>, <<\hA803, \hA805>>, <<\hA807, \hA80A>>,
     <<\hA80C, \hA822>>, <<\hA830, \hA835>>, <<\hA840, \hA873>>,
     <<\hA882, \hA8B3>>, <<\hA8D0, \hA8D9>>, <<\hA8F2, \hA8F7>>,
     <<\hA8FB, \hA8FB>>, <<\hA8FD, \hA8FE>>, <<\hA900, \hA925>>,
     <<\hA930, \hA946>>, <<\hA960, \hA97C>>, <<\hA984, \hA9B2>>,
     <<\hA9CF, \hA9D9>>, <<\hA9E0, \hA9E4>>, <<\hA9E6, \hA9FE>>,
     <<\hAA00, \hAA28>>, <<\hAA40, \hAA42>>, <<\hAA44, \hAA4B>>,
     <<\hAA50, \hAA59>>, <<\hAA60, \hAA76>>, <<\hAA7A, \hAA7A>>,
     <<\hAA7E, \hAAAF>>, <<\hAAB1, \hAAB1>>, <<\hAAB5, \hAAB6>>,
     <<\hAAB9, \hAABD>>, <<\hAAC0, \hAAC0>>, <<\hAAC2, \hAAC2>>,
     <<\hAADB, \hAADD>>, <<\hAAE0, \hAAEA>>, <<\hAAF2, \hAAF4>>,
     <<\hAB01, \hAB06>>, <<\hAB09, \hAB0E>>, <<\hAB11, \hAB16>>,
     <<\hAB20, \hAB26>>, <<\hAB28, \hAB2E>>, <<\hAB30, \hAB5A>>,
     <<\hAB5C, \hAB69>>, <<\hAB70, \hABE2>>, <<\hABF0, \hABF9>>,
     <<\hAC00, \hD7A3>>, <<\hD7B0, \hD7C6>>, <<\hD7CB, \hD7FB>>,
     <<\hF900, \hFA6D>>, <<\hFA70, \hFAD9>>, <<\hFB00, \hFB06>>,
     <<\hFB13, \hFB17>>, <<\hFB1D, \hFB1D>>, <<\hFB1F, \hFB28>>,
     <<\hFB2A, \hFB36>>, <<\hFB38, \hFB3C>>, <<\hFB3E, \hFB3E>>,
     <<\hFB40, \hFB41>>, <<\hFB43, \hFB44>>, <<\hFB46, \hFBB1>>,
     <<\hFBD3, \hFD3D>>, <<\hFD50, \hFD8F>>, <<\hFD92, \hFDC7>>,
     <<\hFDF0, \hFDFB>>, <<\hFE70, \hFE74>>, <<\hFE76, \hFEFC>>,
     <<\hFF10, \hFF19>>, <<\hFF21, \hFF3A>>, <<\hFF41, \hFF5A>>,
     <<\hFF66, \hFFBE>>, <<\hFFC2, \hFFC7>>, <<\hFFCA, \hFFCF>>,
     <<\hFFD2, \hFFD7>>, <<\hFFDA, \hFFDC>>, <<\h10000, \h1000B>>,
     <<\h1000D, \h10026>>, <<\h10028, \h1003A>>, <<\h1003C, \h1003D>>,
     <<\h1003F, \h1004D>>, <<\h10050, \h1005D>>, <<\h10080, \h100FA>>,
     <<\h10107, \h10133>>, <<\h10140, \h10178>>, <<\h1018A, \h1018B>>,
     <<\h10280, \h1029C>>, <<\h102A0, \h102D0>>, <<\h102E1, \h102FB>>,
     <<\h10300, \h10323>>, <<\h1032D, \h1034A>>, <<\h10350, \h10375>>,
     <<\h10380, \h1039D>>, <<\h103A0, \h103C3>>, <<\h103C8, \h103CF>>,
     <<\h103D1, \h103D5>>, <<\h10400, \h1049D>>, <<\h104A0, \h104A9>>,
     <<\h104B0, \h104D3>>, <<\h104D8, \h104FB>>, <<\h10500, \h10527>>,
     <<\h10530, \h10563>>, <<\h10570, \h1057A>>, <<\h1057C, \h1058A>>,
     <<\h1058C, \h10592>>, <<\h10594, \h10595>>, <<\h10597, \h105A1>>,
     <<\h105A3, \h105B1>>, <<\h105B3, \h105B9>>, <<\h105BB, \h105BC>>,
     <<\h10600, \h10736>>, <<\h10740, \h10755>>, <<\h10760, \h10767>>,
     <<\h10780, \h10785>>, <<\h10787, \h107B0>>, <<\h107B2, \h107BA>>,
     <<\h10800, \h10805>>, <<\h10808, \h10808>>, <<\h1080A, \h10835>>,
     <<\h10837, \h10838>>, <<\h1083C, \h1083C>>, <<\h1083F, \h10855>>,
     <<\h10858, \h10876>>, <<\h10879, \h1089E>>, <<\h108A7, \h108AF>>,
     <<\h108E0, \h108F2>>, <<\h108F4, \h108F5>>, <<\h108FB, \h1091B>>,
     <<\h10920, \h10939>>, <<\h10980, \h109B7>>, <<\h109BC, \h109CF>>,
     <<\h109D2, \h10A00>>, <<\h10A10, \h10A13>>, <<\h10A15, \h10A17>>,
     <<\h10A19, \h10A35>>, <<\h10A40, \h10A48>>, <<\h10A60, \h10A7E>>,
     <<\h10A80, \h10A9F>>, <<\h10AC0, \h10AC7>>, <<\h10AC9, \h10AE4>>,
     <<\h10AEB, \h10AEF>>, <<\h10B00, \h10B35>>, <<\h10B40, \h10B55>>,
     <<\h10B58, \h10B72>>, <<\h10B78, \h10B91>>, <<\h10BA9, \h10BAF>>,
     <<\h10C00, \h10C48>>, <<\h10C80, \h10CB2>>, <<\h10CC0, \h10CF2>>,
     <<\h10CFA, \h10D23>>, <<\h10D30, \h10D39>>, <<\h10E60, \h10E7E>>,
     <<\h10E80, \h10EA9>>, <<\h10EB0, \h10EB1>>, <<\h10F00, \h10F27>>,
     <<\h10F30, \h10F45>>, <<\h10F51, \h10F54>>, <<\h10F70, \h10F81>>,
     <<\h10FB0, \h10FCB>>, <<\h10FE0, \h10FF6>>, <<\h11003, \h11037>>,
     <<\h11052, \h1106F>>, <<\h11071, \h11072>>, <<\h11075, \h11075>>,
     <<\h11083, \h110AF>>, <<\h110D0, \h110E8>>, <<\h110F0, \h110F9>>,
     <<\h11103, \h11126>>, <<\h11136, \h1113F>>, <<\h11144, \h11144>>,
     <<\h11147, \h11147>>, <<\h11150, \h11172>>, <<\h11176, \h11176>>,
     <<\h11183, \h111B2>>, <<\h111C1, \h111C4>>, <<\h111D0, \h111DA>>,
     <<\h111DC, \h111DC>>, <<\h111E1, \h111F4>>, <<\h11200, \h11211>>,
     <<\h11213, \h1122B>>, <<\h11280, \h11286>>, <<\h11288, \h11288>>,
     <<\h1128A, \h1128D>>, <<\h1128F, \h1129D>>, <<\h1129F, \h112A8>>,
     <<\h112B0, \h112DE>>, <<\h112F0, \h112F9>>, <<\h11305, \h1130C>>,
     <<\h1130F, \h11310>>, <<\h11313, \h11328>>, <<\h1132A, \h11330>>,
     <<\h11332, \h11333>>, <<\h11335, \h11339>>, <<\h1133D, \h1133D>>,
     <<\h11350, \h11350>>, <<\h1135D, \h11361>>, <<\h11400, \h11434>>,
     <<\h11447, \h1144A>>, <<\h11450, \h11459>>, <<\h1145F, \h11461>>,
     <<\h11480, \h114AF>>, <<\h114C4, \h114C5>>, <<\h114C7, \h114C7>>,
     <<\h114D0, \h114D9>>, <<\h11580, \h115AE>>, <<\h115D8, \h115DB>>,
     <<\h11600, \h1162F>>, <<\h11644, \h11644>>, <<\h11650, \h11659>>,
     <<\h11680, \h116AA>>, <<\h116B8, \h116B8>>, <<\h116C0, \h116C9>>,
     <<\h11700, \h1171A>>, <<\h11730, \h1173B>>, <<\h11740, \h11746>>,
     <<\h11800, \h1182B>>, <<\h118A0, \h118F2>>, <<\h118FF, \h11906>>,
     <<\h11909, \h11909>>, <<\h1190C, \h11913>>, <<\h11915, \h11916>>,
     <<\h11918, \h1192F>>, <<\h1193F, \h1193F>>, <<\h11941, \h11941>>,
     <<\h11950, \h11959>>, <<\h119A0, \h119A7>>, <<\h119AA, \h119D0>>,
     <<\h119E1, \h119E1>>, <<\h119E3, \h119E3>>, <<\h11A00, \h11A00>>,
     <<\h11A0B, \h11A32>>, <<\h11A3A, \h11A3A>>, <<\h11A50, \h11A50>>,
     <<\h11A5C, \h11A89>>, <<\h11A9D, \h11A9D>>, <<\h11AB0, \h11AF8>>,
     <<\h11C00, \h11C08>>, <<\h11C0A, \h11C2E>>, <<\h11C40, \h11C40>>,
     <<\h11C50, \h11C6C>>, <<\h11C72, \h11C8F>>, <<\h11D00, \h11D06>>,
     <<\h11D08, \h11D09>>, <<\h11D0B, \h11D30>>, <<\h11D46, \h11D46>>,
     <<\h11D50, \h11D59>>, <<\h11D60, \h11D65>>, <<\h11D67, \h11D68>>,
     <<\h11D6A, \h11D89>>, <<\h11D98, \h11D98>>, <<\h11DA0, \h11DA9>>,
     <<\h11EE0, \h11EF2>>, <<\h11FB0, \h11FB0>>, <<\h11FC0, \h11FD4>>,
     <<\h12000, \h12399>>, <<\h12400, \h1246E>>, <<\h12480, \h12543>>,
     <<\h12F90, \h12FF0>>, <<\h13000, \h1342E>>, <<\h14400, \h14646>>,
     <<\h16800, \h16A38>>, <<\h16A40, \h16A5E>>, <<\h16A60, \h16A69>>,
     <<\h16A70, \h16ABE>>, <<\h16AC0, \h16AC9>>, <<\h16AD0, \h16AED>>,
     <<\h16B00, \h16B2F>>, <<\h16B40, \h16B43>>, <<\h16B50, \h16B59>>,
     <<\h16B5B, \h16B61>>, <<\h16B63, \h16B77>>, <<\h16B7D, \h16B8F>>,
     <<\h16E40, \h16E96>>, <<\h16F00, \h16F4A>>, <<\h16F50, \h16F50>>,
     <<\h16F93, \h16F9F>>, <<\h16FE0, \h16FE1>>, <<\h16FE3, \h16FE3>>,
     <<\h17000, \h187F7>>, <<\h18800, \h18CD5>>, <<\h18D00, \h18D08>>,
     <<\h1AFF0, \h1AFF3>>, <<\h1AFF5, \h1AFFB>>, <<\h1AFFD, \h1AFFE>>,
     <<\h1B000, \h1B122>>, <<\h1B150, \h1B152>>, <<\h1B164, \h1B167>>,
     <<\h1B170, \h1B2FB>>, <<\h1BC00, \h1BC6A>>, <<\h1BC70, \h1BC7C>>,
     <<\h1BC80, \h1BC88>>, <<\h1BC90, \h1BC99>>, <<\h1D2E0, \h1D2F3>>,
     <<\h1D360, \h1D378>>, <<\h1D400, \h1D454>>, <<\h1D456, \h1D49C>>,
     <<\h1D49E, \h1D49F>>, <<\h1D4A2, \h1D4A2>>, <<\h1D4A5, \h1D4A6>>,
     <<\h1D4A9, \h1D4AC>>, <<\h1D4AE, \h1D4B9>>, <<\h1D4BB, \h1D4BB>>,
     <<\h1D4BD, \h1D4C3>>, <<\h1D4C5, \h1D505>>, <<\h1D507, \h1D50A>>,
     <<\h1D50D, \h1D514>>, <<\h1D516, \h1D51C>>, <<\h1D51E, \h1D539>>,
     <<\h1D53B, \h1D53E>>, <<\h1D540, \h1D544>>, <<\h1D546, \h1D546>>,
     <<\h1D54A, \h1D550>>, <<\h1D552, \h1D6A5>>, <<\h1D6A8, \h1D6C0>>,
     <<\h1D6C2, \h1D6DA>>, <<\h1D6DC, \h1D6FA>>, <<\h1D6FC, \h1D714>>,
     <<\h1D716, \h1D734>>, <<\h1D736, \h1D74E>>, <<\h1D750, \h1D76E>>,
     <<\h1D770, \h1D788>>, <<\h1D78A, \h1D7A8>>, <<\h1D7AA, \h1D7C2>>,
     <<\h1D7C4, \h1D7CB>>, <<\h1D7CE, \h1D7FF>>, <<\h1DF00, \h1DF1E>>,
     <<\h1E100, \h1E12C>>, <<\h1E137, \h1E13D>>, <<\h1E140, \h1E149>>,
     <<\h1E14E, \h1E14E>>, <<\h1E290, \h1E2AD>>, <<\h1E2C0, \h1E2EB>>,
     <<\h1E2F0, \h1E2F9>>, <<\h1E7E0, \h1E7E6>>, <<\h1E7E8, \h1E7EB>>,
     <<\h1E7ED, \h1E7EE>>, <<\h1E7F0, \h1E7FE>>, <<\h1E800, \h1E8C4>>,
     <<\h1E8C7, \h1E8CF>>, <<\h1E900, \h1E943>>, <<\h1E94B, \h1E94B>>,
     <<\h1E950, \h1E959>>, <<\h1EC71, \h1ECAB>>, <<\h1ECAD, \h1ECAF>>,
     <<\h1ECB1, \h1ECB4>>, <<\h1ED01, \h1ED2D>>, <<\h1ED2F, \h1ED3D>>,
     <<\h1EE00, \h1EE03>>, <<\h1EE05, \h1EE1F>>, <<\h1EE21, \h1EE22>>,
     <<\h1EE24, \h1EE24>>, <<\h1EE27, \h1EE27>>, <<\h1EE29, \h1EE32>>,
     <<\h1EE34, \h1EE37>>, <<\h1EE39, \h1EE39>>, <<\h1EE3B, \h1EE3B>>,
     <<\h1EE42, \h1EE42>>, <<\h1EE47, \h1EE47>>, <<\h1EE49, \h1EE49>>,
     <<\h1EE4B, \h1EE4B>>, <<\h1EE4D, \h1EE4F>>, <<\h1EE51, \h1EE52>>,
     <<\h1EE54, \h1EE54>>, <<\h1EE57, \h1EE57>>, <<\h1EE59, \h1EE59>>,
     <<\h1EE5B, \h1EE5B>>, <<\h1EE5D, \h1EE5D>>, <<\h1EE5F, \h1EE5F>>,
     <<\h1EE61, \h1EE62>>, <<\h1EE64, \h1EE64>>, <<\h1EE67, \h1EE6A>>,
     <<\h1EE6C, \h1EE72>>, <<\h1EE74, \h1EE77>>, <<\h1EE79, \h1EE7C>>,
     <<\h1EE7E, \h1EE7E>>, <<\h1EE80, \h1EE89>>, <<\h1EE8B, \h1EE9B>>,
     <<\h1EEA1, \h1EEA3>>, <<\h1EEA5, \h1EEA9>>, <<\h1EEAB, \h1EEBB>>,
     <<\h1F100, \h1F10C>>, <<\h1FBF0, \h1FBF9>>, <<\h20000, \h2A6DF>>,
     <<\h2A700, \h2B738>>, <<\h2B740, \h2B81D>>, <<\h2B820, \h2CEA1>>,
     <<\h2CEB0, \h2EBE0>>, <<\h2F800, \h2FA1D>>, <<\h30000, \h3134A>>}

WordChars ==
    {"0", "1", "2", "3", "4", "5", "6", "7", "8", "9", "A", "B", "C", "D",
     "E", "F", "G", "H", "I", "J", "K", "L", "M", "N", "O", "P", "Q", "R",
     "S", "T", "U", "V", "W", "X", "Y", "Z", "_", "a", "b", "c", "d", "e",
     "f", "g", "h", "i", "j", "k", "l", "m", "n", "o", "p", "q", "r", "s",
     "t", "u", "v", "w", "x", "y", "z", "ª", "²", "³", "µ", "¹", "º", "¼",
     "½", "¾", "À", "Á", "Â", "Ã", "Ä", "Å", "Æ", "Ç", "È", "É", "Ê", "Ë",
     "Ì", "Í", "Î", "Ï", "Ð", "Ñ", "Ò", "Ó", "Ô", "Õ", "Ö", "Ø", "Ù", "Ú",
     "Û", "Ü", "Ý", "Þ", "ß", "à", "á", "â", "ã", "ä", "å", "æ", "ç", "è",
     "é", "ê", "ë", "ì", "í", "î", "ï", "ð", "ñ", "ò", "ó", "ô", "õ", "ö",
     "ø", "ù", "ú", "û", "ü", "ý", "þ", "ÿ"}
    \cup CharsOf(WordRanges)

\* the characters that match a letter of the pattern under IGNORECASE
CaseVariants ==
    ("V" :> {"V", "v"}) @@ ("A" :> {"A", "a"}) @@ ("L" :> {"L", "l"})
    @@ ("U" :> {"U", "u"}) @@ ("E" :> {"E", "e"})
    @@ ("S" :> {"S", "s", "U+017F"})

\* a match of \bVALUES\b (IGNORECASE) starts at position p (1-based)
ValuesMatchAt(sql, p) ==
    /\ p + Len(VALUESWord) - 1 <= Len(sql)
    /\ \A k \in 1..Len(VALUESWord) : sql[p + k - 1] \in CaseVariants[VALUESWord[k]]
    /\ (p = 1 \/ sql[p - 1] \notin WordChars)
    /\ (p + Len(VALUESWord) > Len(sql) \/ sql[p + Len(VALUESWord)] \notin WordChars)

SetMin(S) == CHOOSE x \in S : \A y \in S : x <= y

\* sql[start:end], start the position after the match, end at the next ";"
\* or at the end of the text
SectionAfter(sql, p) ==
    LET start == p + Len(VALUESWord)
        semis == {q \in start..Len(sql) : sql[q] = ";"}
        end   == IF semis = {} THEN Len(sql) + 1 ELSE SetMin(semis)
    IN  SubSeq(sql, start, end - 1)

RECURSIVE SectionsOf(_, _)
SectionsOf(sql, ps) ==
    IF ps = {} THEN <<>>
    ELSE <<SectionAfter(sql, SetMin(ps))>> \o SectionsOf(sql, ps \ {SetMin(ps)})

\* one section per match, in the order of the matches
extract_values_sections(sql) ==
    SectionsOf(sql, {p \in 1..Len(sql) : ValuesMatchAt(sql, p)})

\* all_rows after the reading loop: the tuples of every section; no section,
\* no tuple
RowsRead ==
    IF script = "checklist" /\ extract_values_sections(sql_text) = <<>>
    THEN <<>>
    ELSE all_rows

\* the input is read; checklist: no parsed tuple at all is a ValueError
SqlStart ==
    /\ spc = "start"
    /\ IF script = "checklist" /\ RowsRead = <<>>
       THEN /\ serr' = "ValueError"
            /\ spc' = "failed"
            /\ UNCHANGED <<rec_idx, loc_idx>>
       ELSE /\ rec_idx' = 1
            /\ loc_idx' = 1
            /\ spc' = "loop"
            /\ UNCHANGED serr
    /\ UNCHANGED <<script, sql_text, all_rows, blank_target, values_sql, call_log, sattempts, sql_out>>
    /\ UNCHANGED <<pvars, jvars, mvars>>

\* a row that fails the checks: continue
SkipRow ==
    /\ InLoop
    /\ ~Accepted(all_rows[rec_idx])
    /\ rec_idx' = rec_idx + 1
    /\ UNCHANGED <<script, sql_text, all_rows, blank_target, loc_idx, values_sql, call_log,
                   sattempts, serr, sql_out, spc>>
    /\ UNCHANGED <<pvars, jvars, mvars>>

\* locale_db == "es": the base values, no provider request
SourceRow ==
    /\ InLoop
    /\ Accepted(all_rows[rec_idx])
    /\ locale_db = "es"
    /\ values_sql' = RowsAppend(values_sql, LocaleRows(all_rows[rec_idx], locale_db, deepl_target))
    /\ NextLocale
    /\ UNCHANGED <<script, sql_text, all_rows, blank_target, call_log, sattempts, serr, sql_out, spc>>
    /\ UNCHANGED <<pvars, jvars, mvars>>

\* any other locale, every provider request answered
TranslatedRow ==
    /\ InLoop
    /\ Accepted(all_rows[rec_idx])
    /\ locale_db # "es"
    /\ call_log' = call_log \o [k \in 1..NCalls(all_rows[rec_idx]) |->
                                  <<rec_idx, deepl_target, CallTexts(all_rows[rec_idx])[k]>>]
    /\ values_sql' = RowsAppend(values_sql, LocaleRows(all_rows[rec_idx], locale_db, deepl_target))
    /\ NextLocale
    /\ UNCHANGED <<script, sql_text, all_rows, blank_target, sattempts, serr, sql_out, spc>>
    /\ UNCHANGED <<pvars, jvars, mvars>>

\* any other locale, the k-th provider request raises: nothing catches it
ProviderFails ==
    /\ InLoop
    /\ Accepted(all_rows[rec_idx])
    /\ locale_db # "es"
    /\ \E k \in 1..NCalls(all_rows[rec_idx]) :
         call_log' = call_log \o [j \in 1..k |->
                                    <<rec_idx, deepl_target, CallTexts(all_rows[rec_idx])[j]>>]
    /\ sattempts' = 1
    /\ serr' = "provider"
    /\ spc' = "failed"
    /\ UNCHANGED <<script, sql_text, all_rows, blank_target, rec_idx, loc_idx, values_sql, sql_out>>
    /\ UNCHANGED <<pvars, jvars, mvars>>

\* after the row loop: no row at all is a ValueError, else the file is written
SqlFinish ==
    /\ spc = "loop"
    /\ rec_idx > Len(all_rows)
    /\ IF values_sql = <<>>
       THEN /\ serr' = "ValueError"
            /\ spc' = "failed"
            /\ UNCHANGED sql_out
       ELSE /\ sql_out' = [written |-> TRUE, rows |-> values_sql]
            /\ spc' = "done"
            /\ UNCHANGED serr
    /\ UNCHANGED <<script, sql_text, all_rows, blank_target, rec_idx, loc_idx, values_sql, call_log, sattempts>>
    /\ UNCHANGED <<pvars, jvars, mvars>>

\* The inputs of the two mains.

\* a parsed tuple of twelve fields
Row12(label, placeholder, description, id) ==
    [k \in 1..12 |->
        CASE k = IDX_LABEL + 1            -> label
          [] k = IDX_PLACEHOLDER + 1      -> placeholder
          [] k = IDX_DESCRIPTION + 1      -> description
          [] k = IDX_TEMPLATE_ITEM_ID + 1 -> id
          [] OTHER                        -> Null]

ChecklistRowKinds ==
    { Row12(Str(<<"a">>), Str(<<"p">>), Str(<<"d">>), Str(<<"7">>)),
      Row12(Str(<<"b", "'">>), Null, Null, Str(<<"1", "_", "2">>)),
      Row12(Str(<<"a">>), Str(<<>>), Str(<<>>), Str(<<"-", "8">>)),
      Row12(Str(<<"a">>), Null, Str(<<"d">>), Null),
      Row12(Str(<<"a">>), Null, Str(<<"d">>), Str(<<"x">>)),
      Row12(Null, Null, Str(<<"d">>), Str(<<"7">>)),
      Row12(Str(<<>>), Null, Str(<<"d">>), Str(<<"7">>)),
      <<Str(<<"t">>), Str(<<"a">>), Str(<<"7">>)>> }

\* a JSON value as isinstance(subgroup_id, int) sees it: a JSON number, a
\* JSON boolean (bool is a subclass of int) or anything else
IntVal(k) == [int |-> TRUE, bool |-> FALSE, n |-> k]
BoolVal(b) == [int |-> TRUE, bool |-> TRUE, n |-> IF b THEN 1 ELSE 0]
NotInt == [int |-> FALSE, bool |-> FALSE, n |-> 0]

GenerateRowKinds ==
    { [subgroup_id |-> IntVal(7), subgroup_name |-> Str(<<" ", "a", " ">>)],
      [subgroup_id |-> IntVal(12), subgroup_name |-> Str(<<"b", "'">>)],
      [subgroup_id |-> NotInt, subgroup_name |-> Str(<<"a">>)],
      [subgroup_id |-> BoolVal(TRUE), subgroup_name |-> Str(<<"a">>)],
      [subgroup_id |-> IntVal(8), subgroup_name |-> Str(<<" ">>)],
      [subgroup_id |-> IntVal(8), subgroup_name |-> Null] }

BlankTargets == {"none", "EN-US", "ZH-HANS"}

\* a parsed field as the input file writes it
FieldText(f) ==
    IF f.null THEN [quoted |-> FALSE, text |-> NULLWord]
    ELSE [quoted |-> TRUE, text |-> f.val]

RECURSIVE TuplesText(_)
TuplesText(rows) ==
    IF rows = <<>> THEN <<>>
    ELSE RenderSpan([k \in 1..Len(rows[1]) |-> FieldText(rows[1][k])], <<",">>)
         \o (IF Len(rows) = 1 THEN <<>> ELSE <<",">>)
         \o TuplesText(Tail(rows))

\* the keyword as written, and what follows it before the tuples
Keywords == {VALUESWord, <<"v", "a", "L", "u", "e", "s", "\n">>}

\* an INSERT statement whose tuples are rows
InsertText(rows, kw) ==
    <<"t", " ", "(", "x", ")", "\n">> \o kw \o TuplesText(rows) \o <<";">>

\* input files without a VALUES clause
NoValuesTexts ==
    { <<>>,
      <<"s", "e", "l", "e", "t", " ", "1", ";">>,
      <<"x", "V", "A", "L", "U", "E", "S", " ", "(", "1", ")", ";">>,
      <<"v", "a", "l", "u", "e", "s", "_", "t", ";">> }

InitSql ==
    /\ \/ /\ script = "checklist"
          /\ \/ /\ all_rows \in SeqsUpTo(ChecklistRowKinds, MaxRows)
                /\ \E kw \in Keywords : sql_text = InsertText(all_rows, kw)
             \/ /\ all_rows = <<>>
                /\ sql_text \in NoValuesTexts
       \/ /\ script = "generate"
          /\ all_rows \in SeqsUpTo(GenerateRowKinds, MaxRows)
          /\ sql_text = <<>>
    /\ blank_target \in BlankTargets
    /\ rec_idx = 0 /\ loc_idx = 0 /\ values_sql = <<>> /\ call_log = <<>>
    /\ sattempts = 0 /\ serr = "none"
    /\ sql_out = [written |-> FALSE, rows |-> <<>>]
    /\ spc = "start"
    /\ ParseIdle
    /\ JsonIdle
    /\ MultiIdle

NextSql ==
    \/ SqlStart
    \/ SkipRow
    \/ SourceRow
    \/ TranslatedRow
    \/ ProviderFails
    \/ SqlFinish

SpecSql == InitSql /\ [][NextSql]_vars

----------------------------------------------------------------------------
\* deepl_translator.py: translate_multiple_languages over a flat
\* key -> text dictionary.  translate_batch raises on a failed request, a
\* non-ok response and a count mismatch; nothing retries it.

\* time.sleep(5) before the error is re-raised, in tenths of a second
error_sleep == 50

m_total == Len(items)
m_lang == m_target_langs[m_lang_idx]

Keys(batch) == [k \in 1..Len(batch) |-> batch[k][1]]
Values(batch) == [k \in 1..Len(batch) |-> batch[k][2]]

\* for k, tv in zip(keys, translated_values, strict=True): d[k] = tv
Assign(d, keys, tvs) ==
    LET new == {keys[k] : k \in 1..Len(keys)}
        At1(key) == CHOOSE k \in 1..Len(keys) :
                      keys[k] = key /\ \A j \in k + 1..Len(keys) : keys[j] # key
    IN  [key \in DOMAIN d \cup new |-> IF key \in new THEN tvs[At1(key)] ELSE d[key]]

\* result[lang] = translated_for_lang
SetLang(res, lg, d) ==
    [l \in DOMAIN res \cup {lg} |-> IF l = lg THEN d ELSE res[l]]

\* for lang in target_langs: translated_for_lang = {}; with no item the
\* batch loop has no iteration and the language is done at once
MultiBeginLang ==
    /\ mpc = "lang"
    /\ m_lang_idx <= Len(m_target_langs)
    /\ translated_for_lang' = EmptyDict
    /\ m_i' = 0
    /\ IF m_total = 0
       THEN /\ result' = SetLang(result, m_lang, EmptyDict)
            /\ m_lang_idx' = m_lang_idx + 1
            /\ UNCHANGED mpc
       ELSE /\ mpc' = "call"
            /\ UNCHANGED <<result, m_lang_idx>>
    /\ UNCHANGED <<m_script, items, translated, m_target_langs, m_last_sleep, m_err, m_output>>
    /\ UNCHANGED <<pvars, jvars, svars>>

\* translate_batch returns: the pairs are stored, time.sleep(0.5), next batch;
\* after the last batch result[lang] is set
MultiCallOk ==
    /\ mpc = "call"
    /\ LET batch == Batch(items, m_i)
           d     == Assign(translated_for_lang, Keys(batch), Response(Values(batch), m_lang))
       IN  /\ translated_for_lang' = d
           /\ m_last_sleep' = batch_sleep
           /\ m_i' = m_i + BATCH_SIZE
           /\ IF m_i' < m_total
              THEN UNCHANGED <<result, m_lang_idx, mpc>>
              ELSE /\ result' = SetLang(result, m_lang, d)
                   /\ m_lang_idx' = m_lang_idx + 1
                   /\ mpc' = "lang"
    /\ UNCHANGED <<m_script, items, translated, m_target_langs, m_err, m_output>>
    /\ UNCHANGED <<pvars, jvars, svars>>

\* translate_batch raises: print, time.sleep(5), raise
MultiCallFail ==
    /\ mpc = "call"
    /\ \E kind \in FailureKinds : m_err' = kind
    /\ m_last_sleep' = error_sleep
    /\ mpc' = "failed"
    /\ UNCHANGED <<m_script, items, translated, m_target_langs, m_lang_idx, m_i, translated_for_lang, result,
                   m_output>>
    /\ UNCHANGED <<pvars, jvars, svars>>

\* after the last language: output_path.write_text(...)
MultiWrite ==
    /\ mpc = "lang"
    /\ m_lang_idx > Len(m_target_langs)
    /\ m_output' = [written |-> TRUE, data |-> result]
    /\ mpc' = "done"
    /\ UNCHANGED <<m_script, items, translated, m_target_langs, m_lang_idx, m_i, translated_for_lang, result,
                   m_last_sleep, m_err>>
    /\ UNCHANGED <<pvars, jvars, svars>>

\* m entries, each with its own key and text
Entries(m) == [k \in 1..m |-> << <<"k", ToString(k)>>, <<"s", ToString(k)>> >>]

InitMulti ==
    /\ m_script = "multi"
    /\ translated = EmptyDict
    /\ items \in {Entries(m) : m \in 0..2 \cup (BATCH_SIZE..MaxItems)}
    /\ m_target_langs \in LangLists
    /\ m_lang_idx = 1 /\ m_i = 0
    /\ translated_for_lang = EmptyDict /\ result = EmptyDict
    /\ m_last_sleep = 0 /\ m_err = "none"
    /\ m_output = [written |-> FALSE, data |-> EmptyDict]
    /\ mpc = "lang"
    /\ ParseIdle
    /\ JsonIdle
    /\ SqlIdle

NextMulti ==
    \/ MultiBeginLang
    \/ MultiCallOk
    \/ MultiCallFail
    \/ MultiWrite

SpecMulti == InitMulti /\ [][NextMulti]_vars

\* translate_single_language of deepl_translator.py and main of
\* translate_deepl.py: the same loop, one target language (kept as the one
\* entry of m_target_langs), a flat output dictionary.

\* translate_batch returns: the pairs are stored, time.sleep(0.5), next batch
SingleCallOk ==
    /\ mpc = "scall"
    /\ LET batch == Batch(items, m_i)
       IN  translated' = Assign(translated, Keys(batch), Response(Values(batch), m_lang))
    /\ m_last_sleep' = batch_sleep
    /\ m_i' = m_i + BATCH_SIZE
    /\ mpc' = IF m_i' < m_total THEN "scall" ELSE "swrite"
    /\ UNCHANGED <<m_script, items, m_target_langs, m_lang_idx, translated_for_lang,
                   result, m_err, m_output>>
    /\ UNCHANGED <<pvars, jvars, svars>>

\* translate_batch raises: print, time.sleep(5), raise
SingleCallFail ==
    /\ mpc = "scall"
    /\ \E kind \in FailureKinds : m_err' = kind
    /\ m_last_sleep' = error_sleep
    /\ mpc' = "failed"
    /\ UNCHANGED <<m_script, items, translated, m_target_langs, m_lang_idx, m_i,
                   translated_for_lang, result, m_output>>
    /\ UNCHANGED <<pvars, jvars, svars>>

\* after the batch loop: output_path.write_text(json.dumps(translated, ...))
SingleWrite ==
    /\ mpc = "swrite"
    /\ m_output' = [written |-> TRUE, data |-> translated]
    /\ mpc' = "done"
    /\ UNCHANGED <<m_script, items, translated, m_target_langs, m_lang_idx, m_i,
                   translated_for_lang, result, m_last_sleep, m_err>>
    /\ UNCHANGED <<pvars, jvars, svars>>

InitSingle ==
    /\ m_script \in {"single", "translate_deepl"}
    /\ items \in {Entries(m) : m \in 0..2 \cup (BATCH_SIZE..MaxItems)}
    /\ \E ls \in LangLists : m_target_langs = << ls[1] >>
    /\ m_lang_idx = 1 /\ m_i = 0
    /\ translated = EmptyDict
    /\ translated_for_lang = EmptyDict /\ result = EmptyDict
    /\ m_last_sleep = 0 /\ m_err = "none"
    /\ m_output = [written |-> FALSE, data |-> EmptyDict]
    /\ mpc = IF items = <<>> THEN "swrite" ELSE "scall"
    /\ ParseIdle
    /\ JsonIdle
    /\ SqlIdle

NextSingle ==
    \/ SingleCallOk
    \/ SingleCallFail
    \/ SingleWrite

SpecSingle == InitSingle /\ [][NextSingle]_vars

----------------------------------------------------------------------------
\* One run of any of the pipelines.

InitRuns == InitObjects \/ InitSql \/ InitMulti \/ InitSingle

NextRuns == NextObjects \/ NextSql \/ NextMulti \/ NextSingle

SpecRuns == InitRuns /\ [][NextRuns]_vars

----------------------------------------------------------------------------
\* Claims about the SQL pipelines.

\* C7: a provider failure is retried, and the run is aborted only after the
\* maximum attempt count (4) is exhausted; a single failed provider call
\* never aborts the run.  Stated on the SQL pipelines: a run that a provider
\* failure aborted made max_attempts attempts at the failing request.
C7_AbortOnlyAfterRetries ==
    (spc = "failed" /\ serr = "provider") => sattempts = max_attempts

\* the row the claim expects for record rec and the t-th locale target: the
\* Record's values for the first target, the provider's translation of each
\* translatable attribute for the later ones
C10_ExpectedRow(rec, t) ==
    IF script = "checklist"
    THEN ChecklistRow(ChecklistBase(rec), TARGETS[t][1], TARGETS[t][2])
    ELSE [id |-> GenerateId(rec), locale |-> TARGETS[t][1],
          text |-> Quoted(GenerateText(rec, TARGETS[t][1], TARGETS[t][2]))]

\* C10: the written row list holds exactly one row per (accepted Record,
\* LocaleTarget) pair, record-major in input order and target list order;
\* the first locale's row carries the source values and costs no provider
\* call, every later row carries the provider's translations.
C10_OneRowPerPair ==
    spc = "done" =>
        LET acc == SelectSeq(all_rows, Accepted)
            L   == Len(TARGETS)
        IN  /\ Len(sql_out.rows) = Len(acc) * L
            /\ \A r \in 1..Len(acc), t \in 1..L :
                 sql_out.rows[(r - 1) * L + t] = C10_ExpectedRow(acc[r], t)
            /\ \A k \in 1..Len(call_log) : call_log[k][2] # TARGETS[1][2]

\* the 1-based positions of the tuples the projection rejects
RejectedAt == {k \in 1..Len(all_rows) : ~Accepted(all_rows[k])}

\* C11: a rejected RowTuple is skipped and nothing more: it adds no output
\* row and no provider call, it never aborts the run, and the rows of the
\* other tuples are what they would be without it.
C11_RejectionNonFatal ==
    script = "checklist" =>
        /\ \A k \in 1..Len(call_log) : call_log[k][1] \notin RejectedAt
        /\ (spc = "failed" /\ serr = "ValueError") => RejectedAt = {}
        /\ spc = "done" =>
             LET acc == SelectSeq(all_rows, ChecklistAccepted)
                 L   == Len(TARGETS)
             IN  /\ Len(sql_out.rows) = Len(acc) * L
                 /\ \A r \in 1..Len(acc), t \in 1..L :
                      sql_out.rows[(r - 1) * L + t] =
                          ChecklistRow(ChecklistBase(acc[r]), TARGETS[t][1], TARGETS[t][2])

\* C12: an input without any VALUES occurrence yields no section, and the
\* caller ends the run without an error (an empty success).
C12_NoValuesIsEmptySuccess ==
    (/\ script = "checklist"
     /\ spc # "start"
     /\ \A p \in 1..Len(sql_text) : ~ValuesMatchAt(sql_text, p))
        => (extract_values_sections(sql_text) = <<>> /\ serr = "none")

----------------------------------------------------------------------------
\* Claims about every pipeline.

\* a file is on disk only after the whole run went through
C13_WrittenOnlyAtEnd ==
    /\ output.written =>
         (jpc = "done" /\ (total = 0 \/ lang_idx > Len(target_langs)) /\ output.data = objs)
    /\ sql_out.written =>
         (spc = "done" /\ rec_idx > Len(all_rows) /\ sql_out.rows = values_sql)
    /\ m_output.written =>
         /\ mpc = "done"
         /\ IF m_script = "multi"
            THEN m_lang_idx > Len(m_target_langs) /\ m_output.data = result
            ELSE /\ m_i >= m_total
                 /\ m_output.data = translated
                 /\ DOMAIN translated = {items[k][1] : k \in 1..Len(items)}

\* the records and the per-language results change only in the step that
\* takes in a complete language
C13_AppliedStep ==
    /\ objs' # objs =>
         (jpc = "apply" /\ Len(translated_all) = total /\ jpc' = "lang")
    /\ result' # result =>
         (m_i' >= m_total /\ mpc' = "lang" /\ m_lang_idx' = m_lang_idx + 1)

\* C13: the output file is written only after all records and all locales
\* went through; a run that ends in a fatal error writes no file, and the
\* partial translations of the failed locale are not applied to the records.
C13_NoPartialOutput ==
    [](C13_WrittenOnlyAtEnd) /\ [][C13_AppliedStep]_vars

\* a run that failed in its second language after a first batch of it had
\* come back
C13_Witness ==
    /\ jpc = "failed"
    /\ lang_idx = 2
    /\ Len(translated_all) = BATCH_SIZE
    /\ ~output.written

\* the position of a DeepL target in TARGETS
TargetPos(target) == CHOOSE t \in 1..Len(TARGETS) : TARGETS[t][2] = target

\* C14: every provider call for one locale happens before the first
\* provider call for the next locale.  Stated on the calls the SQL pipelines
\* have made so far: their locales never step back.
C14_LocaleMajorCalls ==
    \A j, k \in 1..Len(call_log) :
        j < k => TargetPos(call_log[j][2]) <= TargetPos(call_log[k][2])

\* C15, the states: with_retries never makes more than max_attempts requests
C15_AttemptStates ==
    jpc \in {"call", "apply", "failed"} =>
        /\ attempt \in 1..max_attempts
        /\ calls \in 0..max_attempts

\* C15, the steps: a request is the attempt-th of its with_retries; a
\* success ends that with_retries (the next request is a first attempt); a
\* failure of attempt k < max_attempts sleeps base_sleep * k and attempt
\* k + 1 follows; a failure of the last attempt raises without a sleep
C15_AttemptStep ==
    jpc = "call" =>
        /\ calls' = attempt
        /\ outcome' = "ok" =>
              /\ attempt' = 1
              /\ jpc' # "failed"
        /\ (outcome' # "ok" /\ attempt < max_attempts) =>
              /\ last_sleep' = base_sleep * attempt
              /\ attempt' = attempt + 1
              /\ jpc' = "call"
              /\ batch_i' = batch_i
        /\ (outcome' # "ok" /\ attempt >= max_attempts) =>
              /\ jpc' = "failed"
              /\ last_sleep' = last_sleep
              /\ attempt' = attempt

\* C15: with_retries invokes the call at most max_attempts times and never
\* again after a success; after the failure of attempt k < max_attempts it
\* waits base_sleep * k before attempt k + 1, and after the failure of the
\* last attempt it raises without waiting.
C15_RetrySchedule ==
    [](C15_AttemptStates) /\ [][C15_AttemptStep]_vars

\* four failures: the sleeps were 2, 4 and 6 seconds, none after the last
C15_Witness ==
    /\ jpc = "failed"
    /\ calls = max_attempts
    /\ last_sleep = base_sleep * (max_attempts - 1)

\* the output rows of the accepted tuple at position k of all_rows start
\* after this many rows (checklist)
RowsBefore(k) ==
    Len(TARGETS) * Cardinality({j \in 1..k - 1 : ChecklistAccepted(all_rows[j])})

\* the provider requests made for the tuple at position k and target t
CallsFor(k, t) ==
    SelectSeq(call_log, LAMBDA c : c[1] = k /\ c[2] = TARGETS[t][2])

EmptyOrNull(f) == f.null \/ Strip(f.val) = <<>>

\* C16: in the checklist pipeline an accepted record whose description is
\* NULL or blank gets its label in its place before any translation: the
\* source row's description is the label and every other row's description
\* is the provider's translation of the label text; a NULL or blank
\* placeholder is NULL in every row and no request is made for it.
C16_DescriptionFallback ==
    script = "checklist" =>
        \A k \in 1..Len(all_rows), t \in 1..Len(TARGETS) :
            (ChecklistAccepted(all_rows[k]) /\ RowsBefore(k) + t <= Len(values_sql)) =>
                LET row   == values_sql[RowsBefore(k) + t]
                    label == Strip(At(all_rows[k], IDX_LABEL).val)
                    sent  == CallsFor(k, t)
                IN  /\ EmptyOrNull(At(all_rows[k], IDX_DESCRIPTION)) =>
                         /\ row.description =
                              IF t = 1 THEN Quoted(label)
                              ELSE Quoted(Strip(ProviderText(TARGETS[t][2], label)))
                         /\ t > 1 => (Len(sent) >= 2 /\ sent[2][3] = label)
                    /\ EmptyOrNull(At(all_rows[k], IDX_PLACEHOLDER)) =>
                         /\ row.placeholder = NULLWord
                         /\ Len(sent) = (IF t = 1 THEN 0 ELSE 2)

\* a finished run with a record whose description and placeholder are NULL
C16_Witness ==
    /\ script = "checklist"
    /\ spc = "done"
    /\ blank_target = "none"
    /\ \E k \in 1..Len(all_rows) :
         /\ ChecklistAccepted(all_rows[k])
         /\ At(all_rows[k], IDX_DESCRIPTION).null
         /\ At(all_rows[k], IDX_PLACEHOLDER).null
         /\ values_sql[RowsBefore(k) + 2].description
              = Quoted(<<"EN-US", ":">> \o At(all_rows[k], IDX_LABEL).val)

====
